---- MODULE Spec2Model ----
(***************************************************************************)
(* Pitch control (src/src/utils/pitch_control.py): the influence surfaces, *)
(* the signed control grid, the zonal metrics and the counterfactual       *)
(* analysis, as a state machine whose actions are the calls of the public  *)
(* functions.                                                              *)
(*                                                                         *)
(* Numbers.  The source computes in float64.  Here a surface value is a    *)
(* fixed-point integer in units of 1/InflScale, a coordinate is an integer *)
(* in units of 1/CoordUnit(grid_size) metres (exact for integer pitch      *)
(* dimensions and integer player coordinates), and every float division    *)
(* is a division rounded to the nearest unit.  A control value is the pair *)
(* [n, t] standing for n / (t + eps): eps is the source's 1e-10, far below *)
(* one fixed-point unit, and is kept as a positive infinitesimal, so that  *)
(* comparisons of control values are exact comparisons of polynomials in   *)
(* eps.                                                                    *)
(***************************************************************************)
EXTENDS Integers, Sequences, FiniteSets, TLC

VARIABLES
    op,                 \* the function that returned last
    player_positions,   \* calculate_pitch_control: its player_positions argument
    grid_size,          \* calculate_pitch_control: its grid_size argument
    sigma,              \* calculate_pitch_control: its sigma argument
    home_control,       \* calculate_pitch_control: home_control after smoothing
    away_control,       \* calculate_pitch_control: away_control after smoothing
    control_grid,       \* the grid calculate_pitch_control returned, and the
                        \* argument of calculate_space_control_metrics
    x_grid,             \* calculate_pitch_control: x returned
    y_grid,             \* calculate_pitch_control: y returned
    thirds,             \* calculate_space_control_metrics: the column ranges of
                        \* defensive_third, middle_third and attacking_third
    metrics,            \* calculate_space_control_metrics: the record returned
    original_positions, \* analyze_space_creation: its first argument
    modified_positions, \* analyze_space_creation: its second argument
    orig_control,       \* analyze_space_creation: orig_control
    mod_control,        \* analyze_space_creation: mod_control
    analysis,           \* analyze_space_creation: the record returned
    previous_call,      \* the first calculate_pitch_control call of a caller
                        \* that calls it again: its arguments and its result
    tracking,           \* get_frame_positions: the frame, the teams and the
                        \* two team ids it is called with
    frame_positions,    \* get_frame_positions: the dict returned
    pitch_config,       \* the pitch_length and pitch_width of a call that
                        \* passes them
    raised,             \* the exception a call ended with, "none" if it
                        \* returned
    heap,               \* the objects of a caller: dicts and arrays, by id
    refs,               \* the id each name of the caller refers to, 0 for
                        \* a name not bound yet
    pc,                 \* the place each of the two evaluations of an
                        \* analysis has reached in calculate_pitch_control
    locals,             \* the local variables of each of the two evaluations
    session_state,      \* st.session_state: the event data loaded, if any
    stats,              \* shots, passess: the team asked for, the tuple
                        \* returned and whether st.warning was called
    match_teams,        \* get_players_name: match_data.metadata.teams
    players_name,       \* get_players_name: the team name asked for and the
                        \* list returned
    match_loading,      \* get_teams_in_matches: the ids given, the place in the
                        \* loop, output and failed_matches
    app_session,        \* st.session_state of the page: the keys main.py and
                        \* get_teams_in_matches write
    script              \* the script run of main.py: its place, its number in
                        \* the session and what it has done

vars == <<op, player_positions, grid_size, sigma, home_control, away_control,
          control_grid, x_grid, y_grid, thirds, metrics, original_positions,
          modified_positions, orig_control, mod_control, analysis,
          previous_call, tracking, frame_positions, pitch_config, raised, heap, refs,
          pc, locals, session_state, stats,
          match_teams, players_name,
          match_loading, app_session, script>>

\* the state of the collaborators of the pitch-control functions
collaborator_vars == <<tracking, frame_positions>>

\* the state of the calls that pass their configuration
config_vars == <<pitch_config, raised>>

\* the objects of the caller whose arguments are followed by identity
heap_vars == <<heap, refs>>

\* the two evaluations of an analysis, taken step by step
evaluation_vars == <<pc, locals>>

\* the session and the result of the statistics of preset.py
event_vars == <<session_state, stats>>

\* the teams of a match and the names read from them
roster_vars == <<match_teams, players_name>>

\* the page: its session state, its script run and the loading of the matches
app_vars == <<match_loading, app_session, script>>

(***************************************************************************)
(* Bounds of the model                                                     *)
(***************************************************************************)
\* players listed per side
MaxPlayers == 2
\* largest grid_size passed to calculate_pitch_control
MaxGridSize == 4
\* fixed-point units per 1.0 of influence
InflScale == 1000
\* columns of a grid passed to calculate_space_control_metrics directly
MaxColumns == 10
\* the default grid_size (50 in the source) is the largest grid of the model,
\* and the default sigma (5.0 in the source, a tenth of the default grid) is
\* scaled down with it
DefaultSigma == 1

(***************************************************************************)
(* Program constants                                                       *)
(***************************************************************************)
DefaultPitchLength == 105
DefaultPitchWidth == 68
\* influence = 1 / (1 + (dist / 10)**2)
DecayK == 10
\* sigma: float = 5.0, in grid cells
SourceDefaultSigma == 5

NoResult == "none"

(***************************************************************************)
(* Inputs                                                                  *)
(***************************************************************************)
\* player coordinates, in metres: two points mirrored in x and the centre
Points == <<  <<-40, -20>>, <<0, 0>>, <<40, -20>>  >>

\* the lists of at most MaxPlayers players, each multiset of points once
PlayerLists ==
    UNION {{[k \in 1..n |-> Points[f[k]]] :
              f \in {g \in [1..n -> 1..Len(Points)] :
                        \A k \in 1..(n - 1) : g[k] <= g[k + 1]}} :
           n \in 0..MaxPlayers}

PositionSets == [{"home", "away"} -> PlayerLists]

\* the dicts with both keys, one key or no key
PartialPositionSets == UNION {[keys -> PlayerLists] : keys \in SUBSET {"home", "away"}}

GridSizes == 1..MaxGridSize

\* the sigmas passed to calculate_pitch_control; 5 is the source's default
Sigmas == {1, 2, SourceDefaultSigma}

\* a call on a 10 x 10 grid with one player a side, the home player at the
\* centre and the away player at (50, 0)
Scenario ==
    [grid_size |-> 10, player_positions |-> [home |-> << <<0, 0>> >>,
                                             away |-> << <<50, 0>> >>]]

\* the places of the one player of a side in the calls on that grid
ScenarioPoints == {<<px, py>> : px \in {-50, -25, 0, 25, 50}, py \in {-30, 0, 30}}

(***************************************************************************)
(* Arithmetic helpers                                                      *)
(***************************************************************************)
Abs(a) == IF a < 0 THEN -a ELSE a

Max(a, b) == IF a >= b THEN a ELSE b

\* a / b rounded to the nearest integer, for a >= 0 and b > 0
RoundDiv(a, b) == (2 * a + b) \div (2 * b)

(***************************************************************************)
(* The sampling lattice: np.linspace(-dim/2, dim/2, grid_size)             *)
(***************************************************************************)
\* coordinates are integers in units of 1/CoordUnit(G) metres
CoordUnit(G) == 2 * Max(G - 1, 1)

\* the samples one step too far: -dim/2 + j * step for j = 1..G
linspaceShifted(dim, G) ==
    [j \in 1..G |-> -(dim * Max(G - 1, 1)) + 2 * j * dim]

\* sample j (1-based) of np.linspace(-dim/2, dim/2, G), in coordinate units
linspace(dim, G) ==
    [j \in 1..G |-> -(dim * Max(G - 1, 1)) + 2 * (j - 1) * dim]

(***************************************************************************)
(* Influence of one player at one lattice point                            *)
(***************************************************************************)
\* 1 + (dist / 10)**2, the reciprocal not taken
InfluenceQuotientInverted(xx, yy, px, py, G) ==
    LET U  == CoordUnit(G)
        d2 == (xx - px * U) * (xx - px * U) + (yy - py * U) * (yy - py * U)
        k2 == DecayK * DecayK * U * U
    IN  [num |-> k2 + d2, den |-> k2]

\* 1 / (1 + (dist / 10)**2) with dist**2 = (xx - px)**2 + (yy - py)**2,
\* xx, yy in coordinate units, px, py in metres, as the quotient num / den
InfluenceQuotient(xx, yy, px, py, G) ==
    LET U  == CoordUnit(G)
        d2 == (xx - px * U) * (xx - px * U) + (yy - py * U) * (yy - py * U)
        k2 == DecayK * DecayK * U * U
    IN  [num |-> k2, den |-> k2 + d2]

\* the quotient as a number of the fixed-point representation
influence(xx, yy, px, py, G) ==
    LET q == InfluenceQuotient(xx, yy, px, py, G)
    IN  RoundDiv(InflScale * q.num, q.den)

\* dict.get(key, default)
Get(d, key, default) == IF key \in DOMAIN d THEN d[key] ELSE default

\* "surface = influence" in place of "surface += influence": the last
\* player's influence alone
SumInfluenceOfLast(players, k, xx, yy, G) ==
    IF Len(players) = 0 THEN 0
    ELSE influence(xx, yy, players[Len(players)][1], players[Len(players)][2], G)

RECURSIVE SumInfluence(_, _, _, _, _)
\* the loop "for px, py in players: surface += influence", at one lattice
\* point, over players[k..]
SumInfluence(players, k, xx, yy, G) ==
    IF k > Len(players) THEN 0
    ELSE influence(xx, yy, players[k][1], players[k][2], G)
         + SumInfluence(players, k + 1, xx, yy, G)

\* np.ones plus the loop
RawSurfaceOnOnes(players, x, y, G) ==
    [i \in 1..G |-> [j \in 1..G |->
        InflScale + SumInfluence(players, 1, x[j], y[i], G)]]

\* np.meshgrid(x, y, indexing='ij'): entry [i][j] at (x[i], y[j])
RawSurfaceTransposed(players, x, y, G) ==
    [i \in 1..G |-> [j \in 1..G |-> SumInfluence(players, 1, x[i], y[j], G)]]

\* the surface of one side before smoothing: np.zeros plus the loop
RawSurface(players, x, y, G) ==
    [i \in 1..G |-> [j \in 1..G |-> SumInfluence(players, 1, x[j], y[i], G)]]

(***************************************************************************)
(* scipy.ndimage.gaussian_filter(surface, sigma=sigma): a 1-d Gaussian     *)
(* correlation along axis 0, then along axis 1, mode 'reflect',            *)
(* truncate 4.0                                                            *)
(***************************************************************************)
\* radius = int(truncate * sigma + 0.5)
KernelRadius(s) == 4 * s

\* 1000 * exp(-0.5 * k**2 / sigma**2) for k = 0..radius, to the nearest integer
KernelWeights(s) ==
    CASE s = 1 -> <<1000, 607, 135, 11, 0>>
      [] s = 2 -> <<1000, 882, 607, 325, 135, 44, 11, 2, 0>>
      [] s = SourceDefaultSigma
               -> <<1000, 980, 923, 835, 726, 607, 487, 375, 278, 198, 135,
                    89, 56, 34, 20, 11, 6, 3, 2, 1, 0>>

RECURSIVE KernelSum(_, _)
\* the sum the weights are normalised by
KernelSum(s, k) ==
    IF k > KernelRadius(s) THEN 0
    ELSE (IF k = 0 THEN 1 ELSE 2) * KernelWeights(s)[k + 1] + KernelSum(s, k + 1)

\* mode 'reflect': (d c b a | a b c d | d c b a), 1-based index into 1..n
Reflect(i, n) ==
    LET m == (i - 1) % (2 * n)
    IN  IF m < n THEN m + 1 ELSE 2 * n - m

RECURSIVE ReflectedWeight(_, _, _, _, _)
\* the total weight with which sample m enters output i of a line of n
\* samples: the sum of weight[|k|] over the taps k..radius that mode
\* 'reflect' maps to m
ReflectedWeight(n, i, m, s, k) ==
    IF k > KernelRadius(s) THEN 0
    ELSE (IF Reflect(i + k, n) = m THEN KernelWeights(s)[Abs(k) + 1] ELSE 0)
         + ReflectedWeight(n, i, m, s, k + 1)

\* the correlation of a line of n samples as an n x n matrix
KernelMatrix(n, s) ==
    [i \in 1..n |-> [m \in 1..n |-> ReflectedWeight(n, i, m, s, -KernelRadius(s))]]

\* a 1-d array as a value that is built once, not once per use
Array(f) == IF f = f THEN f ELSE f

\* a 2-d array built once
Array2(f) == Array([i \in DOMAIN f |-> Array(f[i])])

RECURSIVE Dot(_, _, _, _)
\* sum over m..n of row[m] * line[m]
Dot(row, line, n, m) ==
    IF m > n THEN 0 ELSE row[m] * line[m] + Dot(row, line, n, m + 1)

\* gaussian_filter1d of one line of n samples, K its kernel matrix
gaussian_filter1d(line, n, K, total) ==
    [i \in 1..n |-> RoundDiv(Dot(K[i], line, n, 1), total)]

\* the kernel matrices of the grid sizes and sigmas in use
KernelTable ==
    Array([n \in GridSizes \cup {Scenario.grid_size} |-> Array([s \in Sigmas |-> Array2(KernelMatrix(n, s))])])

gaussian_filter(surface, G, s) ==
    LET K     == KernelTable[G][s]
        total == KernelSum(s, 0)
        \* axis 0: along the row index, one column at a time
        cols  == Array2([j \in 1..G |->
                     gaussian_filter1d([i \in 1..G |-> surface[i][j]], G, K, total)])
        pass0 == Array2([i \in 1..G |-> [j \in 1..G |-> cols[j][i]]])
        \* axis 1: along each row
    IN  Array2([i \in 1..G |-> gaussian_filter1d(pass0[i], G, K, total)])

(***************************************************************************)
(* The control grid                                                        *)
(***************************************************************************)
\* a control value n / (t + eps)
Ctl(n, t) == [n |-> n, t |-> t]

\* the numerator taken as away - home
ControlCellAwayMinusHome(home, away) ==
    LET total_control == home + away
    IN  IF total_control > 0 THEN Ctl(away - home, total_control) ELSE Ctl(0, 0)

\* np.where(total > 0, (home - away) / (total + 1e-10), 0) at one cell
ControlCell(home, away) ==
    LET total_control == home + away
    IN  IF total_control > 0 THEN Ctl(home - away, total_control) ELSE Ctl(0, 0)

ComposeControl(home, away, G) ==
    [i \in 1..G |-> [j \in 1..G |-> ControlCell(home[i][j], away[i][j])]]

\* the away loop reading the 'home' list
PitchControlHomeTwice(positions, pitch_length, pitch_width, G, s) ==
    LET x    == linspace(pitch_length, G)
        y    == linspace(pitch_width, G)
        home == gaussian_filter(
                    Array2(RawSurface(Get(positions, "home", <<>>), x, y, G)), G, s)
    IN  [home_control |-> home, away_control |-> home,
         control_grid |-> Array2(ComposeControl(home, home, G)), x |-> x, y |-> y]

\* the surfaces of the last call kept in place of np.zeros
PitchControlOnOldSurfaces(positions, pitch_length, pitch_width, G, s) ==
    LET x    == linspace(pitch_length, G)
        y    == linspace(pitch_width, G)
        kept == op \in {"calculate_pitch_control", "calculate_space_control_metrics"}
                    /\ grid_size = G
        raw(side, old) ==
            LET new == Array2(RawSurface(Get(positions, side, <<>>), x, y, G))
            IN  [i \in 1..G |-> [j \in 1..G |->
                    new[i][j] + (IF kept THEN old[i][j] ELSE 0)]]
        home == gaussian_filter(Array2(raw("home", home_control)), G, s)
        away == gaussian_filter(Array2(raw("away", away_control)), G, s)
    IN  [home_control |-> home, away_control |-> away,
         control_grid |-> Array2(ComposeControl(home, away, G)), x |-> x, y |-> y]

\* calculate_pitch_control: its locals and its result
PitchControl(positions, pitch_length, pitch_width, G, s) ==
    LET x    == linspace(pitch_length, G)
        y    == linspace(pitch_width, G)
        home == gaussian_filter(
                    Array2(RawSurface(Get(positions, "home", <<>>), x, y, G)), G, s)
        away == gaussian_filter(
                    Array2(RawSurface(Get(positions, "away", <<>>), x, y, G)), G, s)
    IN  [home_control |-> home, away_control |-> away,
         control_grid |-> Array2(ComposeControl(home, away, G)), x |-> x, y |-> y]

(***************************************************************************)
(* Comparisons of control values.  A value n / (t + eps) and a difference  *)
(* of two of them are quotients of polynomials in eps with a positive      *)
(* denominator; a polynomial <<c0, c1, c2>> stands for                     *)
(* c0 + c1 * eps + c2 * eps**2, and its sign is the sign of its first      *)
(* non-zero coefficient.                                                   *)
(***************************************************************************)
PolySign(p) ==
    IF p[1] # 0 THEN (IF p[1] > 0 THEN 1 ELSE -1)
    ELSE IF p[2] # 0 THEN (IF p[2] > 0 THEN 1 ELSE -1)
    ELSE IF p[3] # 0 THEN (IF p[3] > 0 THEN 1 ELSE -1)
    ELSE 0

\* the sign of the control value c
Sign(c) == PolySign(<<c.n, 0, 0>>)

\* the sign of c - a/b for a control value c and integers a, b with b > 0:
\* that of b * n - a * (t + eps)
CompareCtl(c, a, b) == PolySign(<<b * c.n - a * c.t, -a, 0>>)

\* mod - orig of two control values:
\* (n1 * (t2 + eps) - n2 * (t1 + eps)) / ((t1 + eps) * (t2 + eps))
Sub(c1, c2) ==
    [num |-> <<c1.n * c2.t - c2.n * c1.t, c1.n - c2.n, 0>>,
     den |-> <<c1.t * c2.t, c1.t + c2.t, 1>>]

\* the sign of d - a/b for a difference d and integers a, b with b > 0
CompareDiff(d, a, b) ==
    PolySign(<<b * d.num[1] - a * d.den[1],
               b * d.num[2] - a * d.den[2],
               b * d.num[3] - a * d.den[3]>>)

(***************************************************************************)
(* calculate_space_control_metrics                                         *)
(***************************************************************************)
\* the float nan, outside the percentages 0..1000
NaN == -1

\* a / b cut off, not rounded
RoundDown(a, b) == a \div b

\* a / b rounded to the nearest integer, ties to even, for a >= 0 and b > 0
RoundHalfEven(a, b) ==
    LET q == a \div b
        r == a % b
    IN  IF 2 * r < b THEN q
        ELSE IF 2 * r > b THEN q + 1
        ELSE IF q % 2 = 0 THEN q ELSE q + 1

\* round(count / size * 100, 1), in tenths of a percent; 0 / 0 is nan
Percentage(count, size) ==
    IF size = 0 THEN NaN ELSE RoundHalfEven(count * 1000, size)

\* control_grid.shape[1]
Columns(grid) == IF Len(grid) = 0 THEN 0 ELSE Len(grid[1])

\* the cells of the columns cols[1]..cols[2] of every row
Cells(grid, cols) == (1..Len(grid)) \X (cols[1]..cols[2])

\* slice >= 0 in place of slice > 0
CountSignOrZero(grid, cols, sgn) ==
    Cardinality({c \in Cells(grid, cols) :
                    IF sgn = 1 THEN Sign(grid[c[1]][c[2]]) >= 0
                    ELSE Sign(grid[c[1]][c[2]]) = sgn})

\* np.sum(slice > 0) for sgn = 1, np.sum(slice < 0) for sgn = -1,
\* np.sum(slice == 0) for sgn = 0
CountSign(grid, cols, sgn) ==
    Cardinality({c \in Cells(grid, cols) : Sign(grid[c[1]][c[2]]) = sgn})

\* slice.size
SliceSize(grid, cols) == Cardinality(Cells(grid, cols))

\* the column ranges of control_grid[:, :third_size],
\* control_grid[:, third_size:2*third_size] and control_grid[:, 2*third_size:]
ThirdColumns(W) ==
    LET third_size == W \div 3
    IN  [defensive_third |-> <<1, third_size>>,
         middle_third    |-> <<third_size + 1, 2 * third_size>>,
         attacking_third |-> <<2 * third_size + 1, W>>]

\* the away thirds labelled like the home thirds, not mirrored
SpaceControlMetricsUnmirrored(grid) ==
    LET all == <<1, Columns(grid)>>
        t   == ThirdColumns(Columns(grid))
        pct(cols, sgn) == Percentage(CountSign(grid, cols, sgn), SliceSize(grid, cols))
    IN  [home_control_total   |-> pct(all, 1),
         away_control_total   |-> pct(all, -1),
         neutral_control      |-> pct(all, 0),
         home_defensive_third |-> pct(t.defensive_third, 1),
         home_middle_third    |-> pct(t.middle_third, 1),
         home_attacking_third |-> pct(t.attacking_third, 1),
         away_defensive_third |-> pct(t.defensive_third, -1),
         away_middle_third    |-> pct(t.middle_third, -1),
         away_attacking_third |-> pct(t.attacking_third, -1)]

SpaceControlMetrics(grid) ==
    LET all == <<1, Columns(grid)>>
        t   == ThirdColumns(Columns(grid))
        pct(cols, sgn) == Percentage(CountSign(grid, cols, sgn), SliceSize(grid, cols))
    IN  [home_control_total   |-> pct(all, 1),
         away_control_total   |-> pct(all, -1),
         neutral_control      |-> pct(all, 0),
         home_defensive_third |-> pct(t.defensive_third, 1),
         home_middle_third    |-> pct(t.middle_third, 1),
         home_attacking_third |-> pct(t.attacking_third, 1),
         away_defensive_third |-> pct(t.attacking_third, -1),
         away_middle_third    |-> pct(t.middle_third, -1),
         away_attacking_third |-> pct(t.defensive_third, -1)]

(***************************************************************************)
(* analyze_space_creation                                                  *)
(***************************************************************************)
\* grid_size and sigma are not passed on: both grids have the default size
\* and the default sigma
DefaultGridSize == MaxGridSize

\* orig_control - mod_control
ControlDiffReversed(mod, orig) ==
    [i \in 1..Len(mod) |-> [j \in 1..Len(mod[i]) |-> Sub(orig[i][j], mod[i][j])]]

\* mod_control - orig_control
ControlDiff(mod, orig) ==
    [i \in 1..Len(mod) |-> [j \in 1..Len(mod[i]) |-> Sub(mod[i][j], orig[i][j])]]

\* np.sum(control_diff > 0)
SpaceGainedAnyIncrease(control_diff) ==
    Cardinality({c \in Cells(control_diff, <<1, Columns(control_diff)>>) :
                    CompareDiff(control_diff[c[1]][c[2]], 0, 1) > 0})

\* np.sum(control_diff > 0.1)
SpaceGained(control_diff) ==
    Cardinality({c \in Cells(control_diff, <<1, Columns(control_diff)>>) :
                    CompareDiff(control_diff[c[1]][c[2]], 1, 10) > 0})

\* np.sum(control_diff < -0.1)
SpaceLost(control_diff) ==
    Cardinality({c \in Cells(control_diff, <<1, Columns(control_diff)>>) :
                    CompareDiff(control_diff[c[1]][c[2]], -1, 10) < 0})

\* abs() of the change
ControlChangeMagnitude(mod_metrics, orig_metrics) ==
    IF mod_metrics.home_control_total = NaN \/ orig_metrics.home_control_total = NaN
    THEN NaN
    ELSE Abs(mod_metrics.home_control_total - orig_metrics.home_control_total)

\* round(mod_metrics['home_control_total'] - orig_metrics['home_control_total'], 2),
\* in tenths of a percent
ControlChange(mod_metrics, orig_metrics) ==
    IF mod_metrics.home_control_total = NaN \/ orig_metrics.home_control_total = NaN
    THEN NaN
    ELSE mod_metrics.home_control_total - orig_metrics.home_control_total

\* analyze_space_creation: its locals and the record it returns
SpaceCreation(original, modified, pitch_length, pitch_width) ==
    LET o == PitchControl(original, pitch_length, pitch_width,
                          DefaultGridSize, DefaultSigma)
        m == PitchControl(modified, pitch_length, pitch_width,
                          DefaultGridSize, DefaultSigma)
        control_diff == Array2(ControlDiff(m.control_grid, o.control_grid))
        orig_metrics == SpaceControlMetrics(o.control_grid)
        mod_metrics  == SpaceControlMetrics(m.control_grid)
    IN  [orig_control |-> o.control_grid,
         mod_control  |-> m.control_grid,
         analysis |->
            [original_metrics  |-> orig_metrics,
             modified_metrics  |-> mod_metrics,
             control_change    |-> ControlChange(mod_metrics, orig_metrics),
             control_diff_grid |-> control_diff,
             space_gained      |-> SpaceGained(control_diff),
             space_lost        |-> SpaceLost(control_diff),
             x_grid            |-> o.x,
             y_grid            |-> o.y]]

(***************************************************************************)
(* get_frame_positions.  A frame is a pandas Series: a function from the   *)
(* column labels it has to their values; the label f"{player_id}_x" is the *)
(* pair <<player_id, "x">>.                                                *)
(***************************************************************************)
\* the players of the two teams
MaxFramePlayers == 3

\* metadata.teams: the home roster in descending order of player id, the
\* away roster the one remaining player
Teams ==
    << [team_id |-> "H", players |-> [k \in 1..(MaxFramePlayers - 1) |-> MaxFramePlayers - k]],
       [team_id |-> "A", players |-> <<MaxFramePlayers>>] >>

FrameColumns == (1..MaxFramePlayers) \X {"x", "y"}

\* the coordinate a column holds when it is not missing
Coordinate(col) == 10 * col[1] + (IF col[2] = "y" THEN 1 ELSE 0)

\* the rows df.iloc[frame_idx] can be: every column absent, NaN or a number
Frames ==
    UNION {[cols -> {"nan", "number"}] : cols \in SUBSET FrameColumns}

\* the value of a column of the frame
FrameValue(frame_data, col) ==
    IF frame_data[col] = "nan" THEN NaN ELSE Coordinate(col)

\* pd.isna
isna(v) == v = NaN

\* [team for team in teams if team.team_id == team_id][0]
TeamOf(teams, team_id) ==
    teams[CHOOSE i \in 1..Len(teams) :
            /\ teams[i].team_id = team_id
            /\ \A i2 \in 1..(i - 1) : teams[i2].team_id # team_id]

RECURSIVE SidePositionsNaNKept(_, _, _)
\* the loop without the pd.isna test
SidePositionsNaNKept(frame_data, players, k) ==
    IF k > Len(players) THEN <<>>
    ELSE LET x_col == <<players[k], "x">>
             y_col == <<players[k], "y">>
         IN  (IF x_col \in DOMAIN frame_data /\ y_col \in DOMAIN frame_data
              THEN << <<FrameValue(frame_data, x_col), FrameValue(frame_data, y_col)>> >>
              ELSE <<>>)
             \o SidePositionsNaNKept(frame_data, players, k + 1)

RECURSIVE SidePositions(_, _, _)
\* the loop "for player in team.players" from player k on: the list appended
SidePositions(frame_data, players, k) ==
    IF k > Len(players) THEN <<>>
    ELSE LET x_col == <<players[k], "x">>
             y_col == <<players[k], "y">>
         IN  (IF x_col \in DOMAIN frame_data /\ y_col \in DOMAIN frame_data
              THEN LET x == FrameValue(frame_data, x_col)
                       y == FrameValue(frame_data, y_col)
                   IN  IF ~isna(x) /\ ~isna(y) THEN << <<x, y>> >> ELSE <<>>
              ELSE <<>>)
             \o SidePositions(frame_data, players, k + 1)

\* get_frame_positions
FramePositions(frame_data, teams, home_team_id, away_team_id) ==
    [home |-> SidePositions(frame_data, TeamOf(teams, home_team_id).players, 1),
     away |-> SidePositions(frame_data, TeamOf(teams, away_team_id).players, 1)]

(***************************************************************************)
(* preset.py: shots and passess.  The event data is a DataFrame: the set   *)
(* of its columns and the sequence of its rows.                            *)
(***************************************************************************)
\* rows of the event data
MaxEvents == 2

TeamIds == {1, 2}

EventColumns ==
    {"end_type", "team_id", "lead_to_goal", "game_interruption_after", "pass_outcome"}

\* the events: shots of either team, leading to a goal or not, followed by
\* a goal or not, and passes of either team, successful or not
Events ==
    {[end_type |-> "Shot", team_id |-> id, lead_to_goal |-> g,
      game_interruption_after |-> a, pass_outcome |-> "none"] :
        id \in TeamIds, g \in {0, 1}, a \in {"goal_for", "throw_in"}}
    \cup
    {[end_type |-> "pass", team_id |-> id, lead_to_goal |-> 0,
      game_interruption_after |-> "none", pass_outcome |-> o] :
        id \in TeamIds, o \in {"successful", "unsuccessful"}}

\* what st.session_state can hold: no event_data, None, an object that is
\* no DataFrame, or a DataFrame with all columns or with one missing
SessionStates ==
    {[kind |-> k, columns |-> {}, rows |-> <<>>] :
        k \in {"absent", "None", "not a DataFrame"}}
    \cup
    {[kind |-> "DataFrame", columns |-> cols, rows |-> rows] :
        cols \in {EventColumns, EventColumns \ {"pass_outcome"},
                  EventColumns \ {"lead_to_goal"}},
        rows \in UNION {[1..n -> Events] : n \in 0..MaxEvents}}

\* the teams passed: Team objects, and one object that is no Team
TeamArguments == {[is_team |-> b, team_id |-> id] : b \in BOOLEAN, id \in TeamIds}

\* str.lower() of the end types of the events
lower(str) == IF str = "Shot" THEN "shot" ELSE str

\* safe_get_event_data raises ValueError or TypeError
EventDataRaises(session) ==
    \/ session.kind # "DataFrame"
    \/ Len(session.rows) = 0

\* event_data[event_data["end_type"].str.lower() == end_type]
RowsOfType(rows, end_type) ==
    LET Test(row) == lower(row.end_type) = end_type
    IN  SelectSeq(rows, Test)

\* df[df["team_id"] == team.team_id]
RowsOfTeam(rows, team_id) ==
    LET Test(row) == row.team_id = team_id
    IN  SelectSeq(rows, Test)

\* (lead_to_goal == 1) & game_interruption_after.isin(["goal_for", "corner_for"])
is_on_target(row) ==
    row.lead_to_goal = 1 /\ row.game_interruption_after \in {"goal_for", "corner_for"}

\* team_shots["is_on_target"].sum()
OnTarget(team_shots) ==
    LET Test(row) == is_on_target(row)
    IN  Len(SelectSeq(team_shots, Test))

\* pass_df[pass_df["pass_outcome"] == "successful"]
GoodPassOfAnyTeam(pass_df, team_id) ==
    LET Test(row) == row.pass_outcome = "successful"
    IN  SelectSeq(pass_df, Test)

\* pass_df[(pass_df["team_id"] == team.team_id) & (pass_df["pass_outcome"] == "successful")]
GoodPass(pass_df, team_id) ==
    LET Test(row) == row.team_id = team_id /\ row.pass_outcome = "successful"
    IN  SelectSeq(pass_df, Test)

\* the exception the validation at the head of a statistics function
\* raises, "none" when it passes: the team argument, safe_get_event_data,
\* the required columns.  A Team always has a team_id.
ValidationError(team, session, required_cols) ==
    IF ~team.is_team THEN "TypeError"
    ELSE IF session.kind \in {"absent", "None"} THEN "ValueError"
    ELSE IF session.kind = "not a DataFrame" THEN "TypeError"
    ELSE IF Len(session.rows) = 0 THEN "ValueError"
    ELSE IF ~(required_cols \subseteq session.columns) THEN "KeyError"
    ELSE "none"

\* except ValueError only
CaughtValueErrorOnly == {"ValueError"}

\* except (ValueError, TypeError, AttributeError, KeyError)
Caught == {"ValueError", "TypeError", "AttributeError", "KeyError"}

\* the except branch: st.warning and the default, or the exception goes on
\* to the caller
Handled(error, default) ==
    IF error \in Caught
    THEN [result |-> default, warning |-> TRUE, raised |-> "none"]
    ELSE [result |-> NoResult, warning |-> FALSE, raised |-> error]

\* the else branch: the result is returned
Returned(result) == [result |-> result, warning |-> FALSE, raised |-> "none"]

\* shots(team)
Shots(team, session) ==
    LET error == ValidationError(team, session,
                     {"end_type", "team_id", "lead_to_goal", "game_interruption_after"})
    IN  IF error # "none" THEN Handled(error, <<0, 0>>)
        ELSE LET shots_df   == RowsOfType(session.rows, "shot")
                 team_shots == RowsOfTeam(shots_df, team.team_id)
             IN  Returned(<<Len(team_shots), OnTarget(team_shots)>>)

\* passess(team)
Passess(team, session) ==
    LET error == ValidationError(team, session, {"end_type", "team_id", "pass_outcome"})
    IN  IF error # "none" THEN Handled(error, <<0, 0>>)
        ELSE LET pass_df    == RowsOfType(session.rows, "pass")
                 total_pass == RowsOfTeam(pass_df, team.team_id)
                 good_pass  == GoodPass(pass_df, team.team_id)
             IN  Returned(<<Len(total_pass), Len(good_pass)>>)

RECURSIVE SumDuration(_)
\* df['duration'].sum()
SumDuration(rows) ==
    IF rows = <<>> THEN 0 ELSE Head(rows).duration + SumDuration(Tail(rows))

\* possession(team); round() of a quotient of small integers
Possession(team, session) ==
    LET error == ValidationError(team, session, {"team_id", "duration"})
    IN  IF error # "none" THEN Handled(error, 50)
        ELSE LET team_events    == RowsOfTeam(session.rows, team.team_id)
                 total_duration == SumDuration(session.rows)
             IN  IF total_duration = 0 THEN Returned(50)
                 ELSE Returned(RoundHalfEven(SumDuration(team_events) * 100,
                                             total_duration))

\* the end_type each of the counting functions selects
CountedEndType ==
    [clearances         |-> "clearance",
     fouls_committed    |-> "foul_committed",
     direct_disruptions |-> "direct_disruption",
     direct_regains     |-> "direct_regain",
     possession_losses  |-> "possession_loss"]

\* clearances(team), fouls_committed(team), direct_disruptions(team),
\* direct_regains(team), possession_losses(team): the same code but for the
\* end_type selected
CountOfTeam(fn, team, session) ==
    LET error == ValidationError(team, session, {"end_type", "team_id"})
    IN  IF error # "none" THEN Handled(error, 0)
        ELSE LET of_type == RowsOfType(session.rows, CountedEndType[fn])
             IN  Returned(Len(RowsOfTeam(of_type, team.team_id)))

StatFunctions == {"shots", "passess", "possession"} \cup DOMAIN CountedEndType

\* the call of one of the statistics functions
Statistic(fn, team, session) ==
    CASE fn = "shots"      -> Shots(team, session)
      [] fn = "passess"    -> Passess(team, session)
      [] fn = "possession" -> Possession(team, session)
      [] OTHER             -> CountOfTeam(fn, team, session)

\* the columns each function requires, and its default
RequiredColumns(fn) ==
    CASE fn = "shots"      -> {"end_type", "team_id", "lead_to_goal", "game_interruption_after"}
      [] fn = "passess"    -> {"end_type", "team_id", "pass_outcome"}
      [] fn = "possession" -> {"team_id", "duration"}
      [] OTHER             -> {"end_type", "team_id"}

DefaultOf(fn) ==
    CASE fn \in {"shots", "passess"} -> <<0, 0>>
      [] fn = "possession"           -> 50
      [] OTHER                       -> 0

(***************************************************************************)
(* The state machine: a caller computes the control grid of a position set *)
(* and then its metrics, or analyses the relocation of one player.         *)
(***************************************************************************)
Init ==
    /\ op = "init"
    /\ player_positions = NoResult
    /\ grid_size = NoResult
    /\ sigma = NoResult
    /\ home_control = NoResult
    /\ away_control = NoResult
    /\ control_grid = NoResult
    /\ x_grid = NoResult
    /\ y_grid = NoResult
    /\ thirds = NoResult
    /\ metrics = NoResult
    /\ original_positions = NoResult
    /\ modified_positions = NoResult
    /\ orig_control = NoResult
    /\ mod_control = NoResult
    /\ analysis = NoResult
    /\ previous_call = [made |-> FALSE]
    /\ tracking = NoResult
    /\ frame_positions = NoResult
    /\ pitch_config = NoResult
    /\ raised = "none"
    /\ match_teams = NoResult
    /\ players_name = NoResult
    /\ match_loading = NoResult
    /\ app_session = <<>>
    /\ script = [run |-> 0, pc |-> "idle", tests_run |-> 0, validation |-> NoResult,
                 startup |-> NoResult, rendered |-> {}]
    /\ session_state = NoResult
    /\ stats = NoResult
    /\ pc = NoResult
    /\ locals = NoResult
    /\ heap = <<>>
    /\ refs = [original_positions |-> 0, modified_positions |-> 0, control_grid |-> 0,
               x |-> 0, y |-> 0, orig_control |-> 0, mod_control |-> 0,
               control_diff |-> 0]

CalculatePitchControl ==
    /\ op = "init"
    /\ \E positions \in PositionSets, G \in GridSizes, s \in Sigmas :
       \E r \in {PitchControl(positions, DefaultPitchLength, DefaultPitchWidth, G, s)} :
            /\ op' = "calculate_pitch_control"
            /\ player_positions' = positions
            /\ grid_size' = G
            /\ sigma' = s
            /\ home_control' = r.home_control
            /\ away_control' = r.away_control
            /\ control_grid' = r.control_grid
            /\ x_grid' = r.x
            /\ y_grid' = r.y
    /\ UNCHANGED <<thirds, metrics, original_positions, modified_positions,
                   orig_control, mod_control, analysis, previous_call,
                   collaborator_vars, config_vars, heap_vars, evaluation_vars, event_vars,
                   roster_vars, app_vars>>

CalculateSpaceControlMetrics ==
    /\ op = "calculate_pitch_control"
    /\ op' = "calculate_space_control_metrics"
    /\ thirds' = ThirdColumns(Columns(control_grid))
    /\ metrics' = SpaceControlMetrics(control_grid)
    /\ UNCHANGED <<player_positions, grid_size, sigma, home_control, away_control,
                   control_grid, x_grid, y_grid, original_positions,
                   modified_positions, orig_control, mod_control, analysis, previous_call,
                   collaborator_vars, config_vars, heap_vars, evaluation_vars, event_vars,
                   roster_vars, app_vars>>

AnalyzeSpaceCreation ==
    /\ op = "init"
    /\ \E original \in PositionSets, side \in {"home", "away"} :
       \E k \in 1..Len(original[side]), q \in 1..Len(Points) :
       \E modified \in {[original EXCEPT ![side][k] = Points[q]]} :
       \E r \in {SpaceCreation(original, modified,
                               DefaultPitchLength, DefaultPitchWidth)} :
            /\ op' = "analyze_space_creation"
            /\ original_positions' = original
            /\ modified_positions' = modified
            /\ orig_control' = r.orig_control
            /\ mod_control' = r.mod_control
            /\ analysis' = r.analysis
    /\ UNCHANGED <<player_positions, grid_size, sigma, home_control, away_control,
                   control_grid, x_grid, y_grid, thirds, metrics, previous_call,
                   collaborator_vars, config_vars, heap_vars, evaluation_vars, event_vars,
                   roster_vars, app_vars>>

Next ==
    \/ CalculatePitchControl
    \/ CalculateSpaceControlMetrics
    \/ AnalyzeSpaceCreation

Spec == Init /\ [][Next]_vars

(***************************************************************************)
(* calculate_space_control_metrics called on a grid that is given directly *)
(* rather than computed from positions: one row of W columns.              *)
(***************************************************************************)
\* control values of each sign: near +1, near -1, and 0
CellValues == {Ctl(1, 1), Ctl(-1, 1), Ctl(0, 0)}

\* the rows of W columns made of three runs of equal values, the first of a
\* columns and the second up to column b
GivenGrids ==
    UNION {{<<[j \in 1..W |-> IF j <= a THEN v[1] ELSE IF j <= b THEN v[2] ELSE v[3]]>> :
              a \in 0..W, b \in 0..W, v \in CellValues \X CellValues \X CellValues} :
           W \in 1..MaxColumns}

MetricsOfGivenGrid ==
    /\ op = "init"
    /\ \E grid \in GivenGrids :
        /\ op' = "calculate_space_control_metrics"
        /\ control_grid' = grid
        /\ thirds' = ThirdColumns(Columns(grid))
        /\ metrics' = SpaceControlMetrics(grid)
    /\ UNCHANGED <<player_positions, grid_size, sigma, home_control, away_control,
                   x_grid, y_grid, original_positions, modified_positions,
                   orig_control, mod_control, analysis, previous_call,
                   collaborator_vars, config_vars, heap_vars, evaluation_vars, event_vars,
                   roster_vars, app_vars>>

NextMetrics == MetricsOfGivenGrid

SpecMetrics == Init /\ [][NextMetrics]_vars

(***************************************************************************)
(* A caller that calls calculate_pitch_control with the default grid and   *)
(* sigma and calls it twice more, with the same positions or with the two  *)
(* sides exchanged, the metrics possibly computed in between.              *)
(***************************************************************************)
CalculatePitchControlWithDefaults ==
    /\ op = "init"
    /\ \E positions \in PositionSets :
       \E r \in {PitchControl(positions, DefaultPitchLength, DefaultPitchWidth,
                              DefaultGridSize, DefaultSigma)} :
            /\ op' = "calculate_pitch_control"
            /\ player_positions' = positions
            /\ grid_size' = DefaultGridSize
            /\ sigma' = DefaultSigma
            /\ home_control' = r.home_control
            /\ away_control' = r.away_control
            /\ control_grid' = r.control_grid
            /\ x_grid' = r.x
            /\ y_grid' = r.y
    /\ UNCHANGED <<thirds, metrics, original_positions, modified_positions,
                   orig_control, mod_control, analysis, previous_call,
                   collaborator_vars, config_vars, heap_vars, evaluation_vars, event_vars,
                   roster_vars, app_vars>>

\* the two sides exchanged
Swapped(positions) == [home |-> positions["away"], away |-> positions["home"]]

CalculatePitchControlAgain ==
    /\ op \in {"calculate_pitch_control", "calculate_space_control_metrics"}
    /\ previous_call.made => ~previous_call.repeated
    /\ \E positions \in {player_positions, Swapped(player_positions)} :
       \E r \in {PitchControl(positions, DefaultPitchLength, DefaultPitchWidth,
                              grid_size, sigma)} :
            /\ op' = "calculate_pitch_control"
            /\ previous_call' =
                  IF previous_call.made
                  THEN [previous_call EXCEPT
                            !.repeated = TRUE,
                            !.between = (player_positions # previous_call.player_positions)]
                  ELSE [made |-> TRUE, repeated |-> FALSE, between |-> FALSE,
                        player_positions |-> player_positions,
                        grid_size |-> grid_size, sigma |-> sigma,
                        control_grid |-> control_grid,
                        x_grid |-> x_grid, y_grid |-> y_grid]
            /\ player_positions' = positions
            /\ home_control' = r.home_control
            /\ away_control' = r.away_control
            /\ control_grid' = r.control_grid
            /\ x_grid' = r.x
            /\ y_grid' = r.y
    /\ UNCHANGED <<grid_size, sigma, thirds, metrics, original_positions,
                   modified_positions, orig_control, mod_control, analysis,
                   collaborator_vars, config_vars, heap_vars, evaluation_vars,
                   event_vars, roster_vars, app_vars>>

NextRepeat ==
    \/ CalculatePitchControlWithDefaults
    \/ CalculateSpaceControlMetrics
    \/ CalculatePitchControlAgain

SpecRepeat == Init /\ [][NextRepeat]_vars

(***************************************************************************)
(* A caller that computes the control grid of one player a side on the     *)
(* 10 x 10 grid with the default sigma, and then its metrics.              *)
(***************************************************************************)
CalculateScenario ==
    /\ op = "init"
    /\ \E ph \in ScenarioPoints, pa \in ScenarioPoints :
       \E r \in {PitchControl([home |-> <<ph>>, away |-> <<pa>>], DefaultPitchLength,
                              DefaultPitchWidth, Scenario.grid_size,
                              SourceDefaultSigma)} :
            /\ op' = "calculate_pitch_control"
            /\ player_positions' = [home |-> <<ph>>, away |-> <<pa>>]
            /\ grid_size' = Scenario.grid_size
            /\ sigma' = SourceDefaultSigma
            /\ home_control' = r.home_control
            /\ away_control' = r.away_control
            /\ control_grid' = r.control_grid
            /\ x_grid' = r.x
            /\ y_grid' = r.y
    /\ UNCHANGED <<thirds, metrics, original_positions, modified_positions,
                   orig_control, mod_control, analysis, previous_call,
                   collaborator_vars, config_vars, heap_vars, evaluation_vars, event_vars,
                   roster_vars, app_vars>>

NextScenario ==
    \/ CalculateScenario
    \/ CalculateSpaceControlMetrics

SpecScenario == Init /\ [][NextScenario]_vars

(***************************************************************************)
(* A caller that passes a dict that may lack a key, and then computes the  *)
(* metrics of the grid.                                                    *)
(***************************************************************************)
CalculatePitchControlOfPartialDict ==
    /\ op = "init"
    /\ \E pos \in PartialPositionSets, G \in GridSizes :
       \E r \in {PitchControl(pos, DefaultPitchLength, DefaultPitchWidth, G,
                              DefaultSigma)} :
            /\ op' = "calculate_pitch_control"
            /\ player_positions' = pos
            /\ grid_size' = G
            /\ sigma' = DefaultSigma
            /\ home_control' = r.home_control
            /\ away_control' = r.away_control
            /\ control_grid' = r.control_grid
            /\ x_grid' = r.x
            /\ y_grid' = r.y
    /\ UNCHANGED <<thirds, metrics, original_positions, modified_positions,
                   orig_control, mod_control, analysis, previous_call,
                   collaborator_vars, config_vars, heap_vars, evaluation_vars, event_vars,
                   roster_vars, app_vars>>

NextPartial ==
    \/ CalculatePitchControlOfPartialDict
    \/ CalculateSpaceControlMetrics

SpecPartial == Init /\ [][NextPartial]_vars

(***************************************************************************)
(* A caller that passes pitch dimensions and a grid size of its own, zero  *)
(* and negative ones included.  np.linspace raises ValueError for a        *)
(* negative number of samples; nothing else in calculate_pitch_control     *)
(* looks at the configuration.  What gaussian_filter does with an array of *)
(* no elements is not in the source: it returns it or it raises.           *)
(***************************************************************************)
PitchLengths == {-DefaultPitchLength, 0, DefaultPitchLength}

PitchWidths == {-DefaultPitchWidth, 0, DefaultPitchWidth}

ConfiguredGridSizes == {-1, 0} \cup GridSizes

\* the position sets of the configured calls: one player a side at most
ConfiguredPositionSets ==
    {pos \in PositionSets : Len(pos["home"]) <= 1 /\ Len(pos["away"]) <= 1}

\* the result on a grid of no cells
EmptyGrid ==
    [home_control |-> <<>>, away_control |-> <<>>, control_grid |-> <<>>,
     x |-> <<>>, y |-> <<>>]

CalculatePitchControlWithConfig ==
    /\ op = "init"
    /\ \E pos \in ConfiguredPositionSets, pitch_length \in PitchLengths,
          pitch_width \in PitchWidths, G \in ConfiguredGridSizes :
        /\ op' = "calculate_pitch_control"
        /\ player_positions' = pos
        /\ pitch_config' = [pitch_length |-> pitch_length, pitch_width |-> pitch_width]
        /\ grid_size' = G
        /\ sigma' = DefaultSigma
        /\ \/ /\ G < 0
              /\ raised' = "ValueError"
              /\ UNCHANGED <<home_control, away_control, control_grid, x_grid, y_grid>>
           \/ /\ G = 0
              /\ raised' = "error of gaussian_filter"
              /\ UNCHANGED <<home_control, away_control, control_grid, x_grid, y_grid>>
           \/ /\ G >= 0
              /\ \E r \in {IF G = 0 THEN EmptyGrid
                            ELSE PitchControl(pos, pitch_length, pitch_width, G,
                                              DefaultSigma)} :
                    /\ home_control' = r.home_control
                    /\ away_control' = r.away_control
                    /\ control_grid' = r.control_grid
                    /\ x_grid' = r.x
                    /\ y_grid' = r.y
              /\ raised' = "none"
    /\ UNCHANGED <<thirds, metrics, original_positions, modified_positions,
                   orig_control, mod_control, analysis, previous_call,
                   collaborator_vars, heap_vars, evaluation_vars, event_vars,
                   roster_vars, app_vars>>

AnalyzeSpaceCreationWithConfig ==
    /\ op = "init"
    /\ \E original \in {pos \in ConfiguredPositionSets : Len(pos["home"]) = 1},
          q \in 1..Len(Points), pitch_length \in PitchLengths,
          pitch_width \in PitchWidths :
       \E modified \in {[original EXCEPT !["home"][1] = Points[q]]} :
       \E r \in {SpaceCreation(original, modified, pitch_length, pitch_width)} :
            /\ op' = "analyze_space_creation"
            /\ pitch_config' = [pitch_length |-> pitch_length, pitch_width |-> pitch_width]
            /\ original_positions' = original
            /\ modified_positions' = modified
            /\ orig_control' = r.orig_control
            /\ mod_control' = r.mod_control
            /\ analysis' = r.analysis
            /\ raised' = "none"
    /\ UNCHANGED <<player_positions, grid_size, sigma, home_control, away_control,
                   control_grid, x_grid, y_grid, thirds, metrics, previous_call,
                   collaborator_vars, heap_vars, evaluation_vars, event_vars,
                   roster_vars, app_vars>>

NextConfig ==
    \/ CalculatePitchControlWithConfig
    \/ AnalyzeSpaceCreationWithConfig

SpecConfig == Init /\ [][NextConfig]_vars

(***************************************************************************)
(* A caller whose dicts and arrays are objects of a heap.  np.where,       *)
(* np.linspace and the subtraction of two arrays each allocate the array   *)
(* they return; no function assigns to an argument or to an element of it. *)
(***************************************************************************)
\* the id of the next object allocated
NewId(h) == Len(h) + 1

\* the object v stored under id: appended if the id is new
Store(h, id, v) == IF id = NewId(h) THEN Append(h, v) ELSE [h EXCEPT ![id] = v]

\* mod_control -= orig_control: the difference stored in mod_control
ControlDiffInPlace(h, mod_id, orig_id) == mod_id

\* the object "control_diff = mod_control - orig_control" binds: a new array
ControlDiffObject(h, mod_id, orig_id) == NewId(h)

CallerHoldsPositions ==
    /\ op = "init"
    /\ \E original \in {pos \in ConfiguredPositionSets : Len(pos["home"]) = 1},
          q \in 1..Len(Points) :
        /\ op' = "caller"
        /\ heap' = <<original, [original EXCEPT !["home"][1] = Points[q]]>>
        /\ refs' = [refs EXCEPT !.original_positions = 1, !.modified_positions = 2]
    /\ UNCHANGED <<player_positions, grid_size, sigma, home_control, away_control,
                   control_grid, x_grid, y_grid, thirds, metrics, original_positions,
                   modified_positions, orig_control, mod_control, analysis,
                   previous_call, collaborator_vars, config_vars,
                   evaluation_vars, event_vars, roster_vars, app_vars>>

CalculatePitchControlOnHeap ==
    /\ op = "caller"
    /\ \E r \in {PitchControl(heap[refs.original_positions], DefaultPitchLength,
                              DefaultPitchWidth, DefaultGridSize, DefaultSigma)} :
        /\ op' = "calculate_pitch_control"
        /\ heap' = heap \o <<r.control_grid, r.x, r.y>>
        /\ refs' = [refs EXCEPT !.control_grid = NewId(heap), !.x = NewId(heap) + 1,
                                !.y = NewId(heap) + 2]
    /\ UNCHANGED <<player_positions, grid_size, sigma, home_control, away_control,
                   control_grid, x_grid, y_grid, thirds, metrics, original_positions,
                   modified_positions, orig_control, mod_control, analysis,
                   previous_call, collaborator_vars, config_vars,
                   evaluation_vars, event_vars, roster_vars, app_vars>>

CalculateSpaceControlMetricsOnHeap ==
    /\ op = "calculate_pitch_control"
    /\ op' = "calculate_space_control_metrics"
    /\ metrics' = SpaceControlMetrics(heap[refs.control_grid])
    /\ UNCHANGED <<player_positions, grid_size, sigma, home_control, away_control,
                   control_grid, x_grid, y_grid, thirds, original_positions,
                   modified_positions, orig_control, mod_control, analysis,
                   previous_call, collaborator_vars, config_vars, heap_vars, evaluation_vars, event_vars,
                   roster_vars, app_vars>>

AnalyzeSpaceCreationOnHeap ==
    /\ op \in {"caller", "calculate_space_control_metrics"}
    /\ \E r \in {SpaceCreation(heap[refs.original_positions],
                               heap[refs.modified_positions],
                               DefaultPitchLength, DefaultPitchWidth)} :
       \E h \in {heap \o <<r.orig_control, r.analysis.x_grid, r.analysis.y_grid,
                            r.mod_control>>} :
       \E orig_id \in {NewId(heap)}, mod_id \in {NewId(heap) + 3} :
       \E diff_id \in {ControlDiffObject(h, mod_id, orig_id)} :
            /\ op' = "analyze_space_creation"
            /\ heap' = Store(h, diff_id, r.analysis.control_diff_grid)
            /\ refs' = [refs EXCEPT !.orig_control = orig_id, !.mod_control = mod_id,
                                    !.control_diff = diff_id]
            /\ analysis' = r.analysis
    /\ UNCHANGED <<player_positions, grid_size, sigma, home_control, away_control,
                   control_grid, x_grid, y_grid, thirds, metrics, original_positions,
                   modified_positions, orig_control, mod_control, previous_call,
                   collaborator_vars, config_vars,
                   evaluation_vars, event_vars, roster_vars, app_vars>>

NextHeap ==
    \/ CallerHoldsPositions
    \/ CalculatePitchControlOnHeap
    \/ CalculateSpaceControlMetricsOnHeap
    \/ AnalyzeSpaceCreationOnHeap

SpecHeap == Init /\ [][NextHeap]_vars

(***************************************************************************)
(* analyze_space_creation with its two evaluations of                      *)
(* calculate_pitch_control taken one step at a time and in any order: the  *)
(* coordinate arrays, the two np.zeros, the home loop, the away loop, the  *)
(* smoothing, and the combination.  Every step reads and writes the local  *)
(* variables of its own call.                                              *)
(***************************************************************************)
Evaluations == {"original", "modified"}

\* one frame of locals shared by both calls
FrameOfFirstCall(e) == "original"

\* the frame that holds the local variables of the call e
Frame(e) == e

\* the steps of calculate_pitch_control and the step each is followed by
StepAfter ==
    [grid |-> "zeros", zeros |-> "home", home |-> "away", away |-> "smooth",
     smooth |-> "combine", combine |-> "done"]

\* surface += the influence of every player of the list
AddInfluence(surface, players, x, y, G) ==
    LET loop == Array2(RawSurface(players, x, y, G))
    IN  [i \in 1..G |-> [j \in 1..G |-> surface[i][j] + loop[i][j]]]

\* the locals of a call after the step at, run on the locals l
AfterStep(at, l, given, pitch_length, pitch_width, G, s) ==
    CASE at = "grid" ->
            [l EXCEPT !.x = linspace(pitch_length, G), !.y = linspace(pitch_width, G)]
      [] at = "zeros" ->
            [l EXCEPT !.home_control = [i \in 1..G |-> [j \in 1..G |-> 0]],
                      !.away_control = [i \in 1..G |-> [j \in 1..G |-> 0]]]
      [] at = "home" ->
            [l EXCEPT !.home_control =
                AddInfluence(l.home_control, Get(given, "home", <<>>), l.x, l.y, G)]
      [] at = "away" ->
            [l EXCEPT !.away_control =
                AddInfluence(l.away_control, Get(given, "away", <<>>), l.x, l.y, G)]
      [] at = "smooth" ->
            [l EXCEPT !.home_control = gaussian_filter(l.home_control, G, s),
                      !.away_control = gaussian_filter(l.away_control, G, s)]
      [] at = "combine" ->
            [l EXCEPT !.control_grid =
                Array2(ComposeControl(l.home_control, l.away_control, G))]

\* the record analyze_space_creation builds from the two grids
AnalysisOf(orig, mod, x, y) ==
    LET control_diff == Array2(ControlDiff(mod, orig))
        orig_metrics == SpaceControlMetrics(orig)
        mod_metrics  == SpaceControlMetrics(mod)
    IN  [original_metrics  |-> orig_metrics,
         modified_metrics  |-> mod_metrics,
         control_change    |-> ControlChange(mod_metrics, orig_metrics),
         control_diff_grid |-> control_diff,
         space_gained      |-> SpaceGained(control_diff),
         space_lost        |-> SpaceLost(control_diff),
         x_grid            |-> x,
         y_grid            |-> y]

StartAnalysis ==
    /\ op = "init"
    /\ \E original \in {pos \in ConfiguredPositionSets : Len(pos["home"]) = 1},
          q \in 1..Len(Points) :
        /\ original_positions' = original
        /\ modified_positions' = [original EXCEPT !["home"][1] = Points[q]]
    /\ op' = "analyzing"
    /\ pc' = [e \in Evaluations |-> "grid"]
    /\ locals' = [e \in Evaluations |->
                    [x |-> <<>>, y |-> <<>>, home_control |-> <<>>,
                     away_control |-> <<>>, control_grid |-> <<>>]]
    /\ UNCHANGED <<player_positions, grid_size, sigma, home_control, away_control,
                   control_grid, x_grid, y_grid, thirds, metrics, orig_control,
                   mod_control, analysis, previous_call, collaborator_vars,
                   config_vars, heap_vars, event_vars, roster_vars, app_vars>>

EvaluationStep ==
    /\ op = "analyzing"
    /\ \E e \in Evaluations :
        /\ pc[e] # "done"
        /\ pc' = [pc EXCEPT ![e] = StepAfter[pc[e]]]
        /\ \E l \in {AfterStep(pc[e], locals[Frame(e)],
                                IF e = "original" THEN original_positions
                                ELSE modified_positions,
                                DefaultPitchLength, DefaultPitchWidth,
                                DefaultGridSize, DefaultSigma)} :
              locals' = [locals EXCEPT ![Frame(e)] = l]
    /\ UNCHANGED <<op, player_positions, grid_size, sigma, home_control, away_control,
                   control_grid, x_grid, y_grid, thirds, metrics, original_positions,
                   modified_positions, orig_control, mod_control, analysis,
                   previous_call, collaborator_vars, config_vars, heap_vars,
                   event_vars, roster_vars, app_vars>>

FinishAnalysis ==
    /\ op = "analyzing"
    /\ \A e \in Evaluations : pc[e] = "done"
    /\ op' = "analyze_space_creation"
    /\ orig_control' = locals[Frame("original")].control_grid
    /\ mod_control' = locals[Frame("modified")].control_grid
    /\ analysis' = AnalysisOf(locals[Frame("original")].control_grid,
                              locals[Frame("modified")].control_grid,
                              locals[Frame("original")].x, locals[Frame("original")].y)
    /\ UNCHANGED <<player_positions, grid_size, sigma, home_control, away_control,
                   control_grid, x_grid, y_grid, thirds, metrics, original_positions,
                   modified_positions, previous_call, collaborator_vars, config_vars,
                   heap_vars, evaluation_vars, event_vars, roster_vars, app_vars>>

NextInterleaved ==
    \/ StartAnalysis
    \/ EvaluationStep
    \/ FinishAnalysis

SpecInterleaved == Init /\ [][NextInterleaved]_vars

(***************************************************************************)
(* A caller that extracts the positions of one frame.                      *)
(***************************************************************************)
GetFramePositions ==
    /\ op = "init"
    /\ \E frame_data \in Frames, home_team_id \in {"H", "A"}, away_team_id \in {"H", "A"} :
        /\ op' = "get_frame_positions"
        /\ tracking' = [frame_data |-> frame_data, teams |-> Teams,
                        home_team_id |-> home_team_id, away_team_id |-> away_team_id]
        /\ frame_positions' = FramePositions(frame_data, Teams, home_team_id, away_team_id)
    /\ UNCHANGED <<player_positions, grid_size, sigma, home_control, away_control,
                   control_grid, x_grid, y_grid, thirds, metrics, original_positions,
                   modified_positions, orig_control, mod_control, analysis,
                   previous_call, config_vars, heap_vars, evaluation_vars,
                   event_vars, roster_vars, app_vars>>

NextFrame == GetFramePositions

SpecFrame == Init /\ [][NextFrame]_vars

(***************************************************************************)
(* A page that loads event data, or fails to, and asks for the shots or    *)
(* the passes of a team.                                                   *)
(***************************************************************************)
LoadEventData ==
    /\ op = "init"
    /\ \E session \in SessionStates : session_state' = session
    /\ op' = "session"
    /\ UNCHANGED <<player_positions, grid_size, sigma, home_control, away_control,
                   control_grid, x_grid, y_grid, thirds, metrics, original_positions,
                   modified_positions, orig_control, mod_control, analysis,
                   previous_call, collaborator_vars, config_vars, heap_vars,
                   evaluation_vars, stats, roster_vars, app_vars>>

CallShots ==
    /\ op = "session"
    /\ \E team \in TeamArguments :
          stats' = [team |-> team] @@ Shots(team, session_state)
    /\ op' = "shots"
    /\ UNCHANGED <<player_positions, grid_size, sigma, home_control, away_control,
                   control_grid, x_grid, y_grid, thirds, metrics, original_positions,
                   modified_positions, orig_control, mod_control, analysis,
                   previous_call, collaborator_vars, config_vars, heap_vars,
                   evaluation_vars, session_state, roster_vars, app_vars>>

CallPassess ==
    /\ op = "session"
    /\ \E team \in TeamArguments :
          stats' = [team |-> team] @@ Passess(team, session_state)
    /\ op' = "passess"
    /\ UNCHANGED <<player_positions, grid_size, sigma, home_control, away_control,
                   control_grid, x_grid, y_grid, thirds, metrics, original_positions,
                   modified_positions, orig_control, mod_control, analysis,
                   previous_call, collaborator_vars, config_vars, heap_vars,
                   evaluation_vars, session_state, roster_vars, app_vars>>

NextStats ==
    \/ LoadEventData
    \/ CallShots
    \/ CallPassess

SpecStats == Init /\ [][NextStats]_vars

(***************************************************************************)
(* preset.py: pass_accuracy.  A page that loads event data made of passes  *)
(* and asks for the pass accuracy of a team.                               *)
(***************************************************************************)
\* rows of the event data made of passes
MaxPasses == 3

PassEvents == {e \in Events : e.end_type = "pass"}

PassSessionStates ==
    {[kind |-> k, columns |-> {}, rows |-> <<>>] :
        k \in {"absent", "None", "not a DataFrame"}}
    \cup
    {[kind |-> "DataFrame", columns |-> cols, rows |-> rows] :
        cols \in {EventColumns, EventColumns \ {"pass_outcome"}},
        rows \in UNION {[1..n -> PassEvents] : n \in 0..MaxPasses}}

\* the quotient a / b, not negative, rounded to the nearest integer
IntOfQuotientRounded(a, b) == (2 * a + b) \div (2 * b)

\* int(a / b): the float quotient truncated towards zero
IntOfQuotient(a, b) ==
    IF a >= 0 THEN a \div b ELSE -((-a) \div b)

\* pass_accuracy(team)
PassAccuracy(team, session) ==
    LET passes      == Passess(team, session)
        passes_data == passes.result
    IN  IF passes_data[1] = 0
        THEN [result |-> 0, divided |-> FALSE, warning |-> passes.warning,
              raised |-> "none"]
        ELSE [result  |-> IntOfQuotient(passes_data[2] * 100, passes_data[1]),
              divided |-> TRUE, warning |-> passes.warning, raised |-> "none"]

LoadPassData ==
    /\ op = "init"
    /\ \E session \in PassSessionStates : session_state' = session
    /\ op' = "session"
    /\ UNCHANGED <<player_positions, grid_size, sigma, home_control, away_control,
                   control_grid, x_grid, y_grid, thirds, metrics, original_positions,
                   modified_positions, orig_control, mod_control, analysis,
                   previous_call, collaborator_vars, config_vars, heap_vars,
                   evaluation_vars, stats, roster_vars, app_vars>>

CallPassAccuracy ==
    /\ op = "session"
    /\ \E team \in TeamArguments :
          stats' = [team |-> team] @@ PassAccuracy(team, session_state)
    /\ op' = "pass_accuracy"
    /\ UNCHANGED <<player_positions, grid_size, sigma, home_control, away_control,
                   control_grid, x_grid, y_grid, thirds, metrics, original_positions,
                   modified_positions, orig_control, mod_control, analysis,
                   previous_call, collaborator_vars, config_vars, heap_vars,
                   evaluation_vars, session_state, roster_vars, app_vars>>

NextAccuracy ==
    \/ LoadPassData
    \/ CallPassAccuracy

SpecAccuracy == Init /\ [][NextAccuracy]_vars

(***************************************************************************)
(* preset.py and player_profiling.py: get_players_name, the same code in   *)
(* both modules.  A team of the metadata has a name and a list of players; *)
(* a player has an id and a full name.                                     *)
(***************************************************************************)
\* teams of the metadata of a match
MaxTeams == 2

\* players of a team
MaxRoster == 2

TeamNames == {"Home FC", "Away FC"}

\* two players can have the same full name; a player is listed once
RosterPlayers ==
    {[player_id |-> 1, full_name |-> "Player One"],
     [player_id |-> 2, full_name |-> "Player Two"],
     [player_id |-> 3, full_name |-> "Player Two"]}

MetadataTeams ==
    {[name |-> n, players |-> ps] :
        n \in TeamNames,
        ps \in UNION {{r \in [1..k -> RosterPlayers] :
                          \A a, b \in 1..k : r[a] = r[b] => a = b} :
                      k \in 0..MaxRoster}}

MatchTeams == UNION {[1..k -> MetadataTeams] : k \in 0..MaxTeams}

\* [player.full_name for player in team.players]
FullNames(players) == [k \in 1..Len(players) |-> players[k].full_name]

\* the names of the last team of the name rather than of the first
RECURSIVE GetPlayersNameOfLastTeam(_, _)
GetPlayersNameOfLastTeam(team_name, teams) ==
    IF teams = <<>> THEN <<>>
    ELSE IF teams[Len(teams)].name = team_name
         THEN FullNames(teams[Len(teams)].players)
         ELSE GetPlayersNameOfLastTeam(team_name, SubSeq(teams, 1, Len(teams) - 1))

\* get_players_name(team_name, match_data), teams being
\* match_data.metadata.teams
RECURSIVE get_players_name(_, _)
get_players_name(team_name, teams) ==
    IF teams = <<>> THEN <<>>
    ELSE IF Head(teams).name = team_name
         THEN FullNames(Head(teams).players)
         ELSE get_players_name(team_name, Tail(teams))

GetPlayersName ==
    /\ op = "init"
    /\ \E teams \in MatchTeams, team_name \in TeamNames \cup {"Nobody FC"} :
          /\ match_teams' = teams
          /\ players_name' = [team_name |-> team_name,
                              names |-> get_players_name(team_name, teams)]
    /\ op' = "get_players_name"
    /\ UNCHANGED <<player_positions, grid_size, sigma, home_control, away_control,
                   control_grid, x_grid, y_grid, thirds, metrics, original_positions,
                   modified_positions, orig_control, mod_control, analysis,
                   previous_call, collaborator_vars, config_vars, heap_vars,
                   evaluation_vars, event_vars, app_vars>>

NextRoster == GetPlayersName

SpecRoster == Init /\ [][NextRoster]_vars

(***************************************************************************)
(* A caller that calls calculate_pitch_control again with the players of   *)
(* each side listed in another order.                                      *)
(***************************************************************************)
\* the lists with the elements of the given one, in every order
Reorderings(players) ==
    LET n == Len(players)
    IN  {[k \in 1..n |-> players[p[k]]] :
            p \in {q \in [1..n -> 1..n] : \A a, b \in 1..n : q[a] = q[b] => a = b}}

CalculatePitchControlReordered ==
    /\ op = "calculate_pitch_control"
    /\ ~previous_call.made
    /\ \E home \in Reorderings(player_positions["home"]),
          away \in Reorderings(player_positions["away"]) :
       \E r \in {PitchControl([home |-> home, away |-> away], DefaultPitchLength,
                              DefaultPitchWidth, grid_size, sigma)} :
            /\ op' = "calculate_pitch_control"
            /\ previous_call' = [made |-> TRUE, repeated |-> FALSE, between |-> FALSE,
                                 player_positions |-> player_positions,
                                 grid_size |-> grid_size, sigma |-> sigma,
                                 control_grid |-> control_grid,
                                 x_grid |-> x_grid, y_grid |-> y_grid]
            /\ player_positions' = [home |-> home, away |-> away]
            /\ home_control' = r.home_control
            /\ away_control' = r.away_control
            /\ control_grid' = r.control_grid
            /\ x_grid' = r.x
            /\ y_grid' = r.y
    /\ UNCHANGED <<grid_size, sigma, thirds, metrics, original_positions,
                   modified_positions, orig_control, mod_control, analysis,
                   collaborator_vars, config_vars, heap_vars, evaluation_vars,
                   event_vars, roster_vars, app_vars>>

NextReordered ==
    \/ CalculatePitchControlWithDefaults
    \/ CalculatePitchControlReordered

SpecReordered == Init /\ [][NextReordered]_vars

(***************************************************************************)
(* A page that loads event data of every kind of event, or fails to, and   *)
(* calls one of the statistics functions.                                  *)
(***************************************************************************)
\* rows of the event data of the calls of any statistics function
MaxStatRows == 1

StatColumns == EventColumns \cup {"duration"}

\* one event of each kind, of either team, with or without a duration
StatEvents ==
    {[end_type |-> t, team_id |-> id, lead_to_goal |-> 1,
      game_interruption_after |-> "goal_for", pass_outcome |-> "successful",
      duration |-> d] :
        t \in {"Shot", "pass"} \cup {CountedEndType[fn] : fn \in DOMAIN CountedEndType},
        id \in TeamIds, d \in {0, 2}}

StatSessionStates ==
    {[kind |-> k, columns |-> {}, rows |-> <<>>] :
        k \in {"absent", "None", "not a DataFrame"}}
    \cup
    {[kind |-> "DataFrame", columns |-> cols, rows |-> rows] :
        cols \in {StatColumns} \cup {StatColumns \ {col} : col \in StatColumns},
        rows \in UNION {[1..n -> StatEvents] : n \in 0..MaxStatRows}}

LoadStatData ==
    /\ op = "init"
    /\ \E session \in StatSessionStates : session_state' = session
    /\ op' = "session"
    /\ UNCHANGED <<player_positions, grid_size, sigma, home_control, away_control,
                   control_grid, x_grid, y_grid, thirds, metrics, original_positions,
                   modified_positions, orig_control, mod_control, analysis,
                   previous_call, collaborator_vars, config_vars, heap_vars,
                   evaluation_vars, stats, roster_vars, app_vars>>

CallStatistic ==
    /\ op = "session"
    /\ \E team \in TeamArguments, fn \in StatFunctions :
          stats' = [team |-> team, fn |-> fn] @@ Statistic(fn, team, session_state)
    /\ op' = "statistic"
    /\ UNCHANGED <<player_positions, grid_size, sigma, home_control, away_control,
                   control_grid, x_grid, y_grid, thirds, metrics, original_positions,
                   modified_positions, orig_control, mod_control, analysis,
                   previous_call, collaborator_vars, config_vars, heap_vars,
                   evaluation_vars, session_state, roster_vars, app_vars>>

NextValidation ==
    \/ LoadStatData
    \/ CallStatistic

SpecValidation == Init /\ [][NextValidation]_vars

(***************************************************************************)
(* preset.py: get_teams_in_matches, one iteration of its loop at a time.   *)
(* skillcorner.load_open_data returns a dataset or raises; the dataset has *)
(* two teams, or another number of them and the unpacking raises.          *)
(***************************************************************************)
\* ids passed to get_teams_in_matches
MaxMatches == 3

MatchIds == {1, 2}

\* what the body of the try does for one id
LoadOutcomes == {"loaded", "ConnectionError", "ValueError in unpacking"}

\* dataset.metadata.teams of a match that loads with two teams
TeamsOfMatch(match_id) ==
    <<[name |-> <<"home of", match_id>>], [name |-> <<"away of", match_id>>]>>

\* st.session_state.key = value
Put(session, key, value) ==
    [k \in DOMAIN session \cup {key} |-> IF k = key THEN value ELSE session[k]]

\* "success" whatever failed
MessageTypeSuccess(failed_matches) == "success"

\* if not failed_matches: "success", else "warning"
MessageType(failed_matches) ==
    IF failed_matches = <<>> THEN "success" ELSE "warning"

CallGetTeamsInMatches ==
    /\ op = "init"
    /\ \E ids \in UNION {[1..n -> MatchIds] : n \in 0..MaxMatches} :
          match_loading' = [available_matches_ids |-> ids, next |-> 1,
                            output |-> <<>>, failed_matches |-> <<>>,
                            outcomes |-> <<>>, returned |-> FALSE]
    /\ op' = "get_teams_in_matches"
    /\ UNCHANGED <<player_positions, grid_size, sigma, home_control, away_control,
                   control_grid, x_grid, y_grid, thirds, metrics, original_positions,
                   modified_positions, orig_control, mod_control, analysis,
                   previous_call, collaborator_vars, config_vars, heap_vars,
                   evaluation_vars, event_vars, roster_vars, app_session, script>>

\* one iteration: try, except Exception
LoadMatch ==
    /\ op = "get_teams_in_matches"
    /\ ~match_loading.returned
    /\ match_loading.next <= Len(match_loading.available_matches_ids)
    /\ \E outcome \in LoadOutcomes :
          LET match_id == match_loading.available_matches_ids[match_loading.next]
              teams    == TeamsOfMatch(match_id)
          IN  match_loading' =
                [match_loading EXCEPT
                    !.next = @ + 1,
                    !.outcomes = Append(@, outcome),
                    !.output = IF outcome = "loaded"
                               THEN Append(@, <<teams[1].name, teams[2].name, match_id>>)
                               ELSE @,
                    !.failed_matches = IF outcome = "loaded" THEN @
                                       ELSE Append(@, <<match_id, outcome>>)]
    /\ UNCHANGED <<op, player_positions, grid_size, sigma, home_control, away_control,
                   control_grid, x_grid, y_grid, thirds, metrics, original_positions,
                   modified_positions, orig_control, mod_control, analysis,
                   previous_call, collaborator_vars, config_vars, heap_vars,
                   evaluation_vars, event_vars, roster_vars, app_session, script>>

\* the else of the loop and the return
ReturnTeams ==
    /\ op = "get_teams_in_matches"
    /\ ~match_loading.returned
    /\ match_loading.next > Len(match_loading.available_matches_ids)
    /\ match_loading' = [match_loading EXCEPT !.returned = TRUE]
    /\ app_session' =
          Put(app_session, "match_loading_message",
              [type   |-> MessageType(match_loading.failed_matches),
               loaded |-> Len(match_loading.output),
               failed |-> [k \in 1..Len(match_loading.failed_matches) |->
                              match_loading.failed_matches[k][1]]])
    /\ UNCHANGED <<op, player_positions, grid_size, sigma, home_control, away_control,
                   control_grid, x_grid, y_grid, thirds, metrics, original_positions,
                   modified_positions, orig_control, mod_control, analysis,
                   previous_call, collaborator_vars, config_vars, heap_vars,
                   evaluation_vars, event_vars, roster_vars, script>>

NextMatches ==
    \/ CallGetTeamsInMatches
    \/ LoadMatch
    \/ ReturnTeams

SpecMatches == Init /\ [][NextMatches]_vars

(***************************************************************************)
(* A caller that analyses two position sets and then analyses them again   *)
(* with the two arguments exchanged.                                       *)
(***************************************************************************)
\* a second position set that is no relocation of one player of the first:
\* the sides exchanged, or the home side without players
OtherPositionSets(positions) ==
    {[home |-> positions["away"], away |-> positions["home"]],
     [positions EXCEPT !["home"] = <<>>]}

AnalyzeTwoPositionSets ==
    /\ op = "init"
    /\ \E original \in PositionSets :
       \E modified \in OtherPositionSets(original) :
       \E r \in {SpaceCreation(original, modified,
                               DefaultPitchLength, DefaultPitchWidth)} :
            /\ op' = "analyze_space_creation"
            /\ original_positions' = original
            /\ modified_positions' = modified
            /\ orig_control' = r.orig_control
            /\ mod_control' = r.mod_control
            /\ analysis' = r.analysis
    /\ UNCHANGED <<player_positions, grid_size, sigma, home_control, away_control,
                   control_grid, x_grid, y_grid, thirds, metrics, previous_call,
                   collaborator_vars, config_vars, heap_vars, evaluation_vars,
                   event_vars, roster_vars, app_vars>>

AnalyzeSpaceCreationExchanged ==
    /\ op = "analyze_space_creation"
    /\ ~previous_call.made
    /\ \E r \in {SpaceCreation(modified_positions, original_positions,
                               DefaultPitchLength, DefaultPitchWidth)} :
            /\ previous_call' = [made |-> TRUE,
                                 original_positions |-> original_positions,
                                 modified_positions |-> modified_positions,
                                 analysis |-> analysis]
            /\ original_positions' = modified_positions
            /\ modified_positions' = original_positions
            /\ orig_control' = r.orig_control
            /\ mod_control' = r.mod_control
            /\ analysis' = r.analysis
    /\ UNCHANGED <<op, player_positions, grid_size, sigma, home_control, away_control,
                   control_grid, x_grid, y_grid, thirds, metrics, collaborator_vars,
                   config_vars, heap_vars, evaluation_vars, event_vars, roster_vars,
                   app_vars>>

NextExchanged ==
    \/ AnalyzeSpaceCreation
    \/ AnalyzeTwoPositionSets
    \/ AnalyzeSpaceCreationExchanged

SpecExchanged == Init /\ [][NextExchanged]_vars

(***************************************************************************)
(* main.py: the script Streamlit runs from the top at every interaction,   *)
(* with st.session_state kept from one run of a session to the next.  The  *)
(* places of a run: the startup validation, preset_app, the loading of the *)
(* match data, the loading of the event data, the status messages and the  *)
(* stop or the rendering of the tabs.                                      *)
(***************************************************************************)
\* script runs of one session
MaxRuns == 2

\* Python values of the session state
None == [type |-> "NoneType"]

Str(s) == [type |-> "str", value |-> s]

Bool(b) == [type |-> "bool", value |-> b]

Dataset(match_id) == [type |-> "TrackingDataset", game_id |-> match_id]

DataFrame(game_id) == [type |-> "DataFrame", game_id |-> game_id]

\* str(e) of the exceptions of the loads; an exception can have no message
ErrorTexts == {"", "HTTP Error 404"}

\* st.session_state.get(key)
SessionGet(session, key) == IF key \in DOMAIN session THEN session[key] ELSE None

\* what the startup validation can do: all good, packages missing, tests
\* failing, both, or an exception before or after run_tests was called
ValidationOutcomes ==
    {"passed", "imports missing", "tests failed", "imports missing, tests failed",
     "raised before run_tests", "raised after run_tests"}

\* tests_validated set only where the validation passed
ValidatedAfterSuccess(outcome) == outcome = "passed"

\* st.session_state.tests_validated = True in the try and in the except
ValidatedAfter(outcome) == TRUE

\* the match data of the last run left in place when the load raises
MatchDataKept(session) == SessionGet(session, "match_data")

\* st.session_state.match_data = None in the except
MatchDataAfterFailure(session) == None

StartRun ==
    /\ script.pc \in {"idle", "stopped", "rendered"}
    /\ script.pc = "idle" => op = "init"
    /\ script.run < MaxRuns
    /\ script' = [script EXCEPT !.run = @ + 1, !.pc = "startup", !.rendered = {},
                                !.startup = NoResult]
    /\ op' = "main"
    /\ UNCHANGED <<player_positions, grid_size, sigma, home_control, away_control,
                   control_grid, x_grid, y_grid, thirds, metrics, original_positions,
                   modified_positions, orig_control, mod_control, analysis,
                   previous_call, collaborator_vars, config_vars, heap_vars,
                   evaluation_vars, event_vars, roster_vars, match_loading, app_session>>

\* if "tests_validated" not in st.session_state: ...
StartupValidation ==
    /\ script.pc = "startup"
    /\ IF "tests_validated" \notin DOMAIN app_session
       THEN \E outcome \in ValidationOutcomes :
              /\ script' = [script EXCEPT
                               !.pc = "preset",
                               !.startup = "ran",
                               !.validation = outcome,
                               !.tests_run = IF outcome = "raised before run_tests"
                                             THEN @ ELSE @ + 1]
              /\ app_session' = IF ValidatedAfter(outcome)
                                THEN Put(app_session, "tests_validated", Bool(TRUE))
                                ELSE app_session
       ELSE /\ script' = [script EXCEPT !.pc = "preset", !.startup = "skipped"]
            /\ app_session' = app_session
    /\ UNCHANGED <<op, player_positions, grid_size, sigma, home_control, away_control,
                   control_grid, x_grid, y_grid, thirds, metrics, original_positions,
                   modified_positions, orig_control, mod_control, analysis,
                   previous_call, collaborator_vars, config_vars, heap_vars,
                   evaluation_vars, event_vars, roster_vars, match_loading>>

\* preset_app: the match selected in the sidebar
PresetApp ==
    /\ script.pc = "preset"
    /\ \E match_id \in MatchIds :
          app_session' = Put(app_session, "selected_match_id", Str(match_id))
    /\ script' = [script EXCEPT !.pc = "load_match"]
    /\ UNCHANGED <<op, player_positions, grid_size, sigma, home_control, away_control,
                   control_grid, x_grid, y_grid, thirds, metrics, original_positions,
                   modified_positions, orig_control, mod_control, analysis,
                   previous_call, collaborator_vars, config_vars, heap_vars,
                   evaluation_vars, event_vars, roster_vars, match_loading>>

\* try: skillcorner.load_open_data(...) except Exception
LoadMatchData ==
    /\ script.pc = "load_match"
    /\ \/ app_session' =
             Put(Put(app_session, "match_data",
                     Dataset(app_session["selected_match_id"].value)),
                 "match_data_error", None)
       \/ \E text \in ErrorTexts :
             app_session' =
                Put(Put(app_session, "match_data", MatchDataAfterFailure(app_session)),
                    "match_data_error", Str(text))
    /\ script' = [script EXCEPT !.pc = "load_events"]
    /\ UNCHANGED <<op, player_positions, grid_size, sigma, home_control, away_control,
                   control_grid, x_grid, y_grid, thirds, metrics, original_positions,
                   modified_positions, orig_control, mod_control, analysis,
                   previous_call, collaborator_vars, config_vars, heap_vars,
                   evaluation_vars, event_vars, roster_vars, match_loading>>

\* if st.session_state.get("match_data") is not None: try ... else ...
LoadEventDataOfMatch ==
    /\ script.pc = "load_events"
    /\ IF SessionGet(app_session, "match_data") # None
       THEN \/ app_session' =
                  Put(Put(app_session, "event_data",
                          DataFrame(app_session["match_data"].game_id)),
                      "event_data_error", None)
            \/ \E text \in ErrorTexts :
                  app_session' =
                     Put(Put(app_session, "event_data_error", Str(text)),
                         "event_data", None)
       ELSE app_session' =
               Put(Put(app_session, "event_data", None),
                   "event_data_error", Str("Match data not loaded"))
    /\ script' = [script EXCEPT !.pc = "status"]
    /\ UNCHANGED <<op, player_positions, grid_size, sigma, home_control, away_control,
                   control_grid, x_grid, y_grid, thirds, metrics, original_positions,
                   modified_positions, orig_control, mod_control, analysis,
                   previous_call, collaborator_vars, config_vars, heap_vars,
                   evaluation_vars, event_vars, roster_vars, match_loading>>

\* display_status_messages(), then st.stop() or the teams and the tabs
StopOrRender ==
    /\ script.pc = "status"
    /\ script' = IF SessionGet(app_session, "match_data") = None
                 THEN [script EXCEPT !.pc = "stopped"]
                 ELSE [script EXCEPT !.pc = "rendered", !.rendered = {"teams", "tabs"}]
    /\ UNCHANGED <<op, player_positions, grid_size, sigma, home_control, away_control,
                   control_grid, x_grid, y_grid, thirds, metrics, original_positions,
                   modified_positions, orig_control, mod_control, analysis,
                   previous_call, collaborator_vars, config_vars, heap_vars,
                   evaluation_vars, event_vars, roster_vars, match_loading, app_session>>

NextApp ==
    \/ StartRun
    \/ StartupValidation
    \/ PresetApp
    \/ LoadMatchData
    \/ LoadEventDataOfMatch
    \/ StopOrRender

SpecApp == Init /\ [][NextApp]_vars

(***************************************************************************)
(* Properties                                                              *)
(***************************************************************************)
\* the cells of a grid_size x grid_size grid
GridCells(G) == (1..G) \X (1..G)

TotalsSum(m) == m.home_control_total + m.away_control_total + m.neutral_control

\* C1: the three global percentages of the metrics of a grid returned by
\* calculate_pitch_control, each rounded to one decimal on its own, sum to
\* 100.0 within 0.1
C1_TotalsSumTo100 ==
    /\ op = "calculate_space_control_metrics" => Abs(TotalsSum(metrics) - 1000) <= 1
    /\ op = "analyze_space_creation" =>
          /\ Abs(TotalsSum(analysis.original_metrics) - 1000) <= 1
          /\ Abs(TotalsSum(analysis.modified_metrics) - 1000) <= 1

\* metrics whose rounded totals do not sum to exactly 100.0
C1_Witness ==
    /\ op = "calculate_space_control_metrics"
    /\ TotalsSum(metrics) = 999
    /\ metrics.neutral_control > 0

\* C2: every cell of the control grid lies in [-1, 1], is > 0 exactly when
\* the home influence exceeds the away influence, < 0 exactly when the away
\* influence exceeds the home influence, and 0 when they are equal or the
\* total influence is 0
C2_SignedControl ==
    op = "calculate_pitch_control" =>
        \A c \in GridCells(grid_size) :
            LET v == control_grid[c[1]][c[2]]
                h == home_control[c[1]][c[2]]
                a == away_control[c[1]][c[2]]
            IN  /\ h >= 0 /\ a >= 0
                /\ CompareCtl(v, 1, 1) <= 0
                /\ CompareCtl(v, -1, 1) >= 0
                /\ Sign(v) > 0 <=> h > a
                /\ Sign(v) < 0 <=> a > h
                /\ (h = a \/ h + a = 0) => CompareCtl(v, 0, 1) = 0

\* a grid with a home cell, an away cell and a cell where both influences
\* are equal and positive
C2_Witness ==
    /\ op = "calculate_pitch_control"
    /\ \E c1, c2, c3 \in GridCells(grid_size) :
        /\ Sign(control_grid[c1[1]][c1[2]]) > 0
        /\ Sign(control_grid[c2[1]][c2[2]]) < 0
        /\ home_control[c3[1]][c3[2]] = away_control[c3[1]][c3[2]]
        /\ home_control[c3[1]][c3[2]] > 0

\* both sides of the position set are empty
BothEmpty(positions) ==
    Len(Get(positions, "home", <<>>)) = 0 /\ Len(Get(positions, "away", <<>>)) = 0

\* only the home side has players
HomeOnly(positions) ==
    Len(Get(positions, "home", <<>>)) > 0 /\ Len(Get(positions, "away", <<>>)) = 0

\* only the away side has players
AwayOnly(positions) ==
    Len(Get(positions, "home", <<>>)) = 0 /\ Len(Get(positions, "away", <<>>)) > 0

PitchControlCalled == op \in {"calculate_pitch_control", "calculate_space_control_metrics"}

MetricsOfPitchControl == op = "calculate_space_control_metrics"

\* C3: for a position set that is empty on both sides the grid is all zeros
\* and its metrics report neutral_control = 100.0 and 0 for both totals and
\* for every per-third home and away percentage
C3_EmptyIsNeutral ==
    (PitchControlCalled /\ BothEmpty(player_positions)) =>
        /\ \A c \in GridCells(grid_size) : control_grid[c[1]][c[2]] = Ctl(0, 0)
        /\ MetricsOfPitchControl =>
            /\ metrics.neutral_control = 1000
            /\ metrics.home_control_total = 0
            /\ metrics.away_control_total = 0
            /\ metrics.home_defensive_third = 0
            /\ metrics.home_middle_third = 0
            /\ metrics.home_attacking_third = 0
            /\ metrics.away_defensive_third = 0
            /\ metrics.away_middle_third = 0
            /\ metrics.away_attacking_third = 0

\* C4 as stated: with players on one side only, every cell with total
\* influence > 0 has control equal to 1.0 (home only) or -1.0 (away only), and
\* the other side's global percentage is 0
C4_ExactlyOne ==
    /\ (PitchControlCalled /\ HomeOnly(player_positions)) =>
        /\ \A c \in GridCells(grid_size) :
              home_control[c[1]][c[2]] + away_control[c[1]][c[2]] > 0
                  => CompareCtl(control_grid[c[1]][c[2]], 1, 1) = 0
        /\ MetricsOfPitchControl => metrics.away_control_total = 0
    /\ (PitchControlCalled /\ AwayOnly(player_positions)) =>
        /\ \A c \in GridCells(grid_size) :
              home_control[c[1]][c[2]] + away_control[c[1]][c[2]] > 0
                  => CompareCtl(control_grid[c[1]][c[2]], -1, 1) = 0
        /\ MetricsOfPitchControl => metrics.home_control_total = 0

\* C4 amended: with players on one side only, every cell with total
\* influence > 0 has control total / (total + 1e-10), strictly between 0 and
\* 1.0 (home only), or its negation, strictly between -1.0 and 0 (away only),
\* and the other side's global percentage is 0
C4_OneSided ==
    /\ (PitchControlCalled /\ HomeOnly(player_positions)) =>
        /\ \A c \in GridCells(grid_size) :
              home_control[c[1]][c[2]] + away_control[c[1]][c[2]] > 0
                  => /\ control_grid[c[1]][c[2]] =
                            Ctl(home_control[c[1]][c[2]], home_control[c[1]][c[2]])
                     /\ CompareCtl(control_grid[c[1]][c[2]], 0, 1) > 0
                     /\ CompareCtl(control_grid[c[1]][c[2]], 1, 1) < 0
        /\ MetricsOfPitchControl => metrics.away_control_total = 0
    /\ (PitchControlCalled /\ AwayOnly(player_positions)) =>
        /\ \A c \in GridCells(grid_size) :
              home_control[c[1]][c[2]] + away_control[c[1]][c[2]] > 0
                  => /\ control_grid[c[1]][c[2]] =
                            Ctl(-away_control[c[1]][c[2]], away_control[c[1]][c[2]])
                     /\ CompareCtl(control_grid[c[1]][c[2]], 0, 1) < 0
                     /\ CompareCtl(control_grid[c[1]][c[2]], -1, 1) > 0
        /\ MetricsOfPitchControl => metrics.home_control_total = 0

\* the metrics of a grid computed from home players only, every cell of it
\* reached by their influence
C4_Witness ==
    /\ MetricsOfPitchControl
    /\ HomeOnly(player_positions)
    /\ \A c \in GridCells(grid_size) : home_control[c[1]][c[2]] > 0
    /\ metrics.home_control_total = 1000

\* C5: control_diff_grid is, cell by cell, the control grid of the modified
\* positions minus the control grid of the original positions, and
\* control_change is modified_metrics.home_control_total minus
\* original_metrics.home_control_total, both metrics being those of the two
\* grids that were diffed
C5_DiffOfTheTwoGrids ==
    op = "analyze_space_creation" =>
        /\ orig_control = PitchControl(original_positions, DefaultPitchLength,
                DefaultPitchWidth, DefaultGridSize, DefaultSigma).control_grid
        /\ mod_control = PitchControl(modified_positions, DefaultPitchLength,
                DefaultPitchWidth, DefaultGridSize, DefaultSigma).control_grid
        /\ \A c \in GridCells(DefaultGridSize) :
              analysis.control_diff_grid[c[1]][c[2]]
                  = Sub(mod_control[c[1]][c[2]], orig_control[c[1]][c[2]])
        /\ analysis.original_metrics = SpaceControlMetrics(orig_control)
        /\ analysis.modified_metrics = SpaceControlMetrics(mod_control)
        /\ analysis.control_change
              = analysis.modified_metrics.home_control_total
                - analysis.original_metrics.home_control_total

\* an analysis in which a relocation changed the grid and the home total
C5_Witness ==
    /\ op = "analyze_space_creation"
    /\ analysis.control_change > 0
    /\ \E c \in GridCells(DefaultGridSize) :
          CompareDiff(analysis.control_diff_grid[c[1]][c[2]], 0, 1) < 0

\* the cells whose control rose by more than 0.1
GainedCells ==
    {c \in GridCells(DefaultGridSize) :
        CompareDiff(Sub(mod_control[c[1]][c[2]], orig_control[c[1]][c[2]]), 1, 10) > 0}

\* the cells whose control fell by more than 0.1
LostCells ==
    {c \in GridCells(DefaultGridSize) :
        CompareDiff(Sub(mod_control[c[1]][c[2]], orig_control[c[1]][c[2]]), -1, 10) < 0}

\* C6: space_gained counts the cells whose difference is > +0.1 and
\* space_lost those whose difference is < -0.1; no cell is in both, and the
\* two counts together never exceed the number of cells
C6_GainedAndLost ==
    op = "analyze_space_creation" =>
        /\ analysis.space_gained = Cardinality(GainedCells)
        /\ analysis.space_lost = Cardinality(LostCells)
        /\ GainedCells \cap LostCells = {}
        /\ analysis.space_gained + analysis.space_lost
              <= DefaultGridSize * DefaultGridSize

\* an analysis with cells gained, cells lost, and cells that changed by no
\* more than 0.1 although they changed
C6_Witness ==
    /\ op = "analyze_space_creation"
    /\ analysis.space_gained > 0
    /\ analysis.space_lost > 0
    /\ \E c \in GridCells(DefaultGridSize) \ (GainedCells \cup LostCells) :
          CompareDiff(analysis.control_diff_grid[c[1]][c[2]], 0, 1) # 0

\* C7 as stated: the three segments are contiguous, disjoint and cover every
\* column once, the first two of floor(W/3) columns and the last of
\* W - 2*floor(W/3); every segment is non-empty and every per-third percentage
\* is a defined number
C7_ThreeNonEmptyThirds ==
    op = "calculate_space_control_metrics" =>
        LET W == Columns(control_grid)
            d == thirds.defensive_third
            m == thirds.middle_third
            a == thirds.attacking_third
        IN  /\ d[1] = 1 /\ m[1] = d[2] + 1 /\ a[1] = m[2] + 1 /\ a[2] = W
            /\ d[2] - d[1] + 1 = W \div 3
            /\ m[2] - m[1] + 1 = W \div 3
            /\ a[2] - a[1] + 1 = W - 2 * (W \div 3)
            /\ d[1] <= d[2] /\ m[1] <= m[2] /\ a[1] <= a[2]
            /\ metrics.home_defensive_third # NaN
            /\ metrics.home_middle_third # NaN
            /\ metrics.home_attacking_third # NaN
            /\ metrics.away_defensive_third # NaN
            /\ metrics.away_middle_third # NaN
            /\ metrics.away_attacking_third # NaN

\* round(count / size * 100, 1) of the cells of sign sgn in the columns lo..hi
PercentageIn(grid, lo, hi, sgn) ==
    Percentage(
        Cardinality({c \in (1..Len(grid)) \X (lo..hi) : Sign(grid[c[1]][c[2]]) = sgn}),
        Cardinality((1..Len(grid)) \X (lo..hi)))

\* C8: the labels of the thirds are mirrored between the teams: the home
\* attacking and the away defensive third are the rightmost segment, the home
\* defensive and the away attacking third the leftmost, both middle thirds
\* the middle one; a 10-column grid whose control is positive exactly in the
\* rightmost segment has home_attacking_third = 100.0 and
\* home_defensive_third = home_middle_third = 0
C8_MirroredThirds ==
    op = "calculate_space_control_metrics" =>
        LET W == Columns(control_grid)
            k == W \div 3
        IN  /\ metrics.home_attacking_third = PercentageIn(control_grid, 2 * k + 1, W, 1)
            /\ metrics.away_defensive_third = PercentageIn(control_grid, 2 * k + 1, W, -1)
            /\ metrics.home_defensive_third = PercentageIn(control_grid, 1, k, 1)
            /\ metrics.away_attacking_third = PercentageIn(control_grid, 1, k, -1)
            /\ metrics.home_middle_third = PercentageIn(control_grid, k + 1, 2 * k, 1)
            /\ metrics.away_middle_third = PercentageIn(control_grid, k + 1, 2 * k, -1)
            /\ (W = 10 /\ \A c \in Cells(control_grid, <<1, W>>) :
                             Sign(control_grid[c[1]][c[2]]) > 0 <=> c[2] >= 7)
                  => /\ metrics.home_attacking_third = 1000
                     /\ metrics.home_defensive_third = 0
                     /\ metrics.home_middle_third = 0

\* the metrics of a 10-column grid that is positive exactly in columns 7..10
\* and negative elsewhere
C8_Witness ==
    /\ op = "calculate_space_control_metrics"
    /\ Columns(control_grid) = 10
    /\ \A c \in Cells(control_grid, <<1, 10>>) :
          /\ Sign(control_grid[c[1]][c[2]]) > 0 <=> c[2] >= 7
          /\ Sign(control_grid[c[1]][c[2]]) < 0 <=> c[2] < 7
    /\ metrics.home_attacking_third = 1000
    /\ metrics.away_attacking_third = 1000
    /\ metrics.away_defensive_third = 0

\* every x coordinate negated
NegateX(players) == [k \in 1..Len(players) |-> <<-players[k][1], players[k][2]>>]

\* the position set mirrored across the pitch centre with the sides exchanged
Mirrored(positions) ==
    [home |-> NegateX(positions["away"]), away |-> NegateX(positions["home"])]

\* the grid of the mirrored and exchanged position set
MirroredGrid ==
    PitchControl(Mirrored(player_positions), DefaultPitchLength,
                 DefaultPitchWidth, grid_size, sigma).control_grid

\* C9 as stated, for any grid: every cell has a cell for (-x, y), and the
\* mirrored and exchanged position set yields at the cell for (x, y) the
\* negation of the original grid's value at the cell for (-x, y)
C9_MirrorSymmetryOfAnyGrid ==
    op = "calculate_pitch_control" =>
        \A mirrored \in {MirroredGrid} : \A c \in GridCells(grid_size) :
            \E j \in 1..grid_size :
                /\ x_grid[j] = -x_grid[c[2]]
                /\ mirrored[c[1]][c[2]].n = -control_grid[c[1]][j].n
                /\ mirrored[c[1]][c[2]].t = control_grid[c[1]][j].t

\* C9: on a grid of two or more samples per axis, negating the x coordinate
\* of every player and exchanging the two lists yields a grid whose value at
\* the cell for (x, y) is the negation of the original grid's value at the
\* cell for (-x, y); the single sample of a grid_size of 1 lies at
\* x = -pitch_length/2 and has no cell for -x
C9_MirrorSymmetry ==
    op = "calculate_pitch_control" =>
        /\ grid_size >= 2 =>
              \A mirrored \in {MirroredGrid} : \A c \in GridCells(grid_size) :
                  LET j == grid_size + 1 - c[2]
                  IN  /\ x_grid[j] = -x_grid[c[2]]
                      /\ mirrored[c[1]][c[2]].n = -control_grid[c[1]][j].n
                      /\ mirrored[c[1]][c[2]].t = control_grid[c[1]][j].t
        /\ grid_size = 1 => x_grid[1] = -(DefaultPitchLength * CoordUnit(1)) \div 2

\* a grid of a position set that is not its own mirror image, with cells of
\* both signs and a cell that is not the negation of its mirror cell
C9_Witness ==
    /\ op = "calculate_pitch_control"
    /\ grid_size > 1
    /\ Mirrored(player_positions) # player_positions
    /\ \E c1, c2 \in GridCells(grid_size) :
          /\ Sign(control_grid[c1[1]][c1[2]]) > 0
          /\ Sign(control_grid[c2[1]][c2[2]]) < 0
    /\ \E c \in GridCells(grid_size) :
          control_grid[c[1]][c[2]].n # -control_grid[c[1]][grid_size + 1 - c[2]].n

Dist2(c, p, x, y, G) ==
    (x[c[2]] - p[1] * CoordUnit(G)) * (x[c[2]] - p[1] * CoordUnit(G))
        + (y[c[1]] - p[2] * CoordUnit(G)) * (y[c[1]] - p[2] * CoordUnit(G))

\* the home players that differ between the original and the modified set
MovedHome ==
    {k \in 1..Len(original_positions["home"]) :
        original_positions["home"][k] # modified_positions["home"][k]}

\* the cells that were away-dominated in the original grid and to which the
\* one relocated player, a home player, moved strictly closer
ApproachedAwayCells ==
    IF op = "analyze_space_creation"
       /\ original_positions["away"] = modified_positions["away"]
       /\ Cardinality(MovedHome) = 1
    THEN LET k == CHOOSE k \in MovedHome : TRUE
         IN  {c \in GridCells(DefaultGridSize) :
                /\ Sign(orig_control[c[1]][c[2]]) < 0
                /\ Dist2(c, modified_positions["home"][k], analysis.x_grid,
                         analysis.y_grid, DefaultGridSize)
                     < Dist2(c, original_positions["home"][k], analysis.x_grid,
                             analysis.y_grid, DefaultGridSize)}
    ELSE {}

\* C11 as stated: a home player moved strictly closer to a cell that was
\* away-dominated in the original grid leaves that cell's value in
\* control_diff_grid >= 0
C11_CloserNeverLowers ==
    \A c \in ApproachedAwayCells :
        CompareDiff(analysis.control_diff_grid[c[1]][c[2]], 0, 1) >= 0

\* the indices of the samples of a coordinate array nearest to p metres
Nearest(coords, p, G) ==
    {j \in 1..G : \A j2 \in 1..G :
        Abs(coords[j] - p * CoordUnit(G)) <= Abs(coords[j2] - p * CoordUnit(G))}

\* |a| <= |b| for two control values
AbsLeq(a, b) == CompareDiff(Sub(Ctl(Abs(a.n), a.t), Ctl(Abs(b.n), b.t)), 0, 1) <= 0

\* C12 as stated: on the 105 x 68 pitch with grid_size 10 and the default
\* sigma, a home player at (0, 0) and an away player at (50, 0), the value at
\* the cell nearest (0, 0) is > 0.5, the value at the cell nearest (50, 0) is
\* < -0.5, and the smallest absolute value along that row lies in the column
\* nearest the midline x = 25 between the two players
C12_ConcreteScenario ==
    (/\ op = "calculate_pitch_control"
     /\ grid_size = Scenario.grid_size
     /\ sigma = SourceDefaultSigma
     /\ player_positions = Scenario.player_positions)
        => \A i \in Nearest(y_grid, 0, grid_size) :
              /\ \A j \in Nearest(x_grid, 0, grid_size) :
                    CompareCtl(control_grid[i][j], 1, 2) > 0
              /\ \A j \in Nearest(x_grid, 50, grid_size) :
                    CompareCtl(control_grid[i][j], -1, 2) < 0
              /\ \E j \in Nearest(x_grid, 25, grid_size) : \A j2 \in 1..grid_size :
                    AbsLeq(control_grid[i][j], control_grid[i][j2])

\* the roster of the team a side was called with
RosterOf(side) ==
    TeamOf(tracking.teams, IF side = "home" THEN tracking.home_team_id
                           ELSE tracking.away_team_id).players

\* both columns of the player exist in the frame and neither is missing
HasPosition(player) ==
    /\ <<player, "x">> \in DOMAIN tracking.frame_data
    /\ <<player, "y">> \in DOMAIN tracking.frame_data
    /\ tracking.frame_data[<<player, "x">>] # "nan"
    /\ tracking.frame_data[<<player, "y">>] # "nan"

\* C13: for each side the list returned holds exactly the (x, y) pairs of the
\* roster's players whose x and y columns both exist and are both
\* non-missing, in roster order; every other player is omitted, so the list
\* is no longer than the roster
C13_PresentPlayersInRosterOrder ==
    op = "get_frame_positions" =>
        \A side \in {"home", "away"} :
            LET kept == SelectSeq(RosterOf(side), HasPosition)
            IN  /\ DOMAIN frame_positions = {"home", "away"}
                /\ Len(frame_positions[side]) = Len(kept)
                /\ \A k \in 1..Len(kept) :
                      frame_positions[side][k]
                          = <<Coordinate(<<kept[k], "x">>), Coordinate(<<kept[k], "y">>)>>
                /\ Len(frame_positions[side]) <= Len(RosterOf(side))

\* a frame in which one home player has a NaN x, and the away player no y
\* column, and the other home player is returned alone
C13_Witness ==
    /\ op = "get_frame_positions"
    /\ tracking.home_team_id = "H" /\ tracking.away_team_id = "A"
    /\ \E p \in 1..MaxFramePlayers :
          /\ <<p, "x">> \in DOMAIN tracking.frame_data
          /\ <<p, "y">> \in DOMAIN tracking.frame_data
          /\ tracking.frame_data[<<p, "x">>] = "nan"
          /\ tracking.frame_data[<<p, "y">>] = "number"
    /\ <<MaxFramePlayers, "x">> \in DOMAIN tracking.frame_data
    /\ <<MaxFramePlayers, "y">> \notin DOMAIN tracking.frame_data
    /\ Len(frame_positions["home"]) = Len(RosterOf("home")) - 1
    /\ frame_positions["away"] = <<>>

\* C14: calculate_pitch_control returns a grid_size x grid_size grid for any
\* number of players a side, an empty list and an absent key included; a
\* side without players has an all-zero surface, the grid is neutral
\* everywhere when both sides have none, and has no cell of the sign of a
\* side that has none
C14_SidesWithoutPlayers ==
    op = "calculate_pitch_control" =>
        LET home == Get(player_positions, "home", <<>>)
            away == Get(player_positions, "away", <<>>)
        IN  /\ DOMAIN control_grid = 1..grid_size
            /\ \A c \in GridCells(grid_size) :
                  /\ DOMAIN control_grid[c[1]] = 1..grid_size
                  /\ Len(home) = 0 => home_control[c[1]][c[2]] = 0
                  /\ Len(away) = 0 => away_control[c[1]][c[2]] = 0
                  /\ (Len(home) = 0 /\ Len(away) = 0)
                        => CompareCtl(control_grid[c[1]][c[2]], 0, 1) = 0
                  /\ Len(home) = 0 => Sign(control_grid[c[1]][c[2]]) <= 0
                  /\ Len(away) = 0 => Sign(control_grid[c[1]][c[2]]) >= 0

\* a grid of a dict without the 'home' key and with as many away players as
\* the model has: away-controlled everywhere
C14_Witness ==
    /\ op = "calculate_pitch_control"
    /\ DOMAIN player_positions = {"away"}
    /\ Len(player_positions["away"]) = MaxPlayers
    /\ grid_size = MaxGridSize
    /\ \A c \in GridCells(grid_size) : Sign(control_grid[c[1]][c[2]]) < 0

\* C15 as stated: a call of calculate_pitch_control or of
\* analyze_space_creation with a non-positive pitch_length, pitch_width or
\* grid_size ends with an error and returns no grid and no analysis
C15_NonPositiveConfigFailsFast ==
    /\ (/\ op = "calculate_pitch_control"
        /\ \/ pitch_config.pitch_length <= 0
           \/ pitch_config.pitch_width <= 0
           \/ grid_size <= 0) => raised # "none"
    /\ (/\ op = "analyze_space_creation"
        /\ \/ pitch_config.pitch_length <= 0
           \/ pitch_config.pitch_width <= 0) => raised # "none"

\* the keys of the record calculate_space_control_metrics returns
MetricKeys ==
    {"home_control_total", "away_control_total", "neutral_control",
     "home_defensive_third", "home_middle_third", "home_attacking_third",
     "away_defensive_third", "away_middle_third", "away_attacking_third"}

\* v is count / size * 100 to one decimal: a number of tenths in 0..1000 no
\* further than half a tenth from the quotient
IsRoundedPercentage(v, count, size) ==
    /\ v \in 0..1000
    /\ 2 * Abs(v * size - 1000 * count) <= size

\* the number of cells of sign sgn in the columns lo..hi
CountIn(grid, lo, hi, sgn) ==
    Cardinality({c \in (1..Len(grid)) \X (lo..hi) : Sign(grid[c[1]][c[2]]) = sgn})

\* v is the rounded percentage of the segment lo..hi, nan if it has no cell
IsPercentageOf(v, grid, lo, hi, sgn) ==
    IF hi < lo THEN v = NaN
    ELSE IsRoundedPercentage(v, CountIn(grid, lo, hi, sgn),
                             Len(grid) * (hi - lo + 1))

\* C17 as stated: the record has three global and eight per-third
\* percentages, each of them in [0, 100]
C17_ElevenPercentages ==
    op = "calculate_space_control_metrics" =>
        /\ Cardinality(DOMAIN metrics) = 3 + 8
        /\ \A key \in DOMAIN metrics : metrics[key] \in 0..1000

\* C17 amended: the record has exactly nine keys, three global and six
\* per-third percentages; each global one is rounded to one decimal and in
\* [0, 100]; each per-third one is rounded to one decimal and in [0, 100]
\* when its segment has a column, and nan when it has none
C17_NinePercentages ==
    op = "calculate_space_control_metrics" =>
        LET W == Columns(control_grid)
            k == W \div 3
        IN  /\ DOMAIN metrics = MetricKeys
            /\ IsPercentageOf(metrics.home_control_total, control_grid, 1, W, 1)
            /\ IsPercentageOf(metrics.away_control_total, control_grid, 1, W, -1)
            /\ IsPercentageOf(metrics.neutral_control, control_grid, 1, W, 0)
            /\ metrics.home_control_total # NaN
            /\ metrics.away_control_total # NaN
            /\ metrics.neutral_control # NaN
            /\ IsPercentageOf(metrics.home_defensive_third, control_grid, 1, k, 1)
            /\ IsPercentageOf(metrics.home_middle_third, control_grid, k + 1, 2 * k, 1)
            /\ IsPercentageOf(metrics.home_attacking_third, control_grid, 2 * k + 1, W, 1)
            /\ IsPercentageOf(metrics.away_defensive_third, control_grid, 2 * k + 1, W, -1)
            /\ IsPercentageOf(metrics.away_middle_third, control_grid, k + 1, 2 * k, -1)
            /\ IsPercentageOf(metrics.away_attacking_third, control_grid, 1, k, -1)

\* the metrics of a grid of three or more columns two thirds of whose cells
\* are home cells: 66.7 after rounding
C17_Witness ==
    /\ op = "calculate_space_control_metrics"
    /\ Columns(control_grid) >= 3
    /\ metrics.home_control_total = 667
    /\ metrics.away_control_total = 333
    /\ \A key \in DOMAIN metrics : metrics[key] # NaN

\* C18: no call changes an object that existed before it: the position dicts
\* and their lists and the control grid passed to the metrics stay as they
\* were; and the difference grid of analyze_space_creation is a new array,
\* neither the original nor the modified grid
C18_ArgumentsLeftAlone ==
    [][/\ \A id \in DOMAIN heap : id \in DOMAIN heap' /\ heap'[id] = heap[id]
       /\ op' = "analyze_space_creation" =>
             /\ refs'.control_diff \notin DOMAIN heap
             /\ refs'.control_diff # refs'.orig_control
             /\ refs'.control_diff # refs'.mod_control
             /\ heap'[refs'.control_diff] = analysis'.control_diff_grid]_vars

\* an analysis made after the grid and the metrics of the original positions
\* were computed, whose difference grid has a cell that is not 0
C18_Witness ==
    /\ op = "analyze_space_creation"
    /\ refs.control_grid > 0
    /\ refs.control_diff > refs.mod_control
    /\ heap[refs.original_positions] # heap[refs.modified_positions]
    /\ \E c \in GridCells(DefaultGridSize) :
          CompareDiff(heap[refs.control_diff][c[1]][c[2]], 0, 1) # 0

\* C19: whatever the order in which the steps of the two evaluations were
\* taken, the analysis is the one of the sequential execution, original
\* first and modified second
C19_AnyOrderSameAnalysis ==
    op = "analyze_space_creation" =>
        \A r \in {SpaceCreation(original_positions, modified_positions,
                                DefaultPitchLength, DefaultPitchWidth)} :
            /\ analysis = r.analysis
            /\ orig_control = r.orig_control
            /\ mod_control = r.mod_control

\* the modified evaluation has combined its grid while the original one has
\* only filled in its home surface, and the two home surfaces differ
C19_Witness ==
    /\ op = "analyzing"
    /\ pc["modified"] = "done"
    /\ pc["original"] = "away"
    /\ locals["original"].home_control # locals["modified"].home_control
    /\ \E c \in GridCells(DefaultGridSize) :
          Sign(locals["modified"].control_grid[c[1]][c[2]]) # 0

\* the rows of the loaded event data that are events of the given kind of
\* the team asked for
CountedRows(kind) ==
    {k \in 1..Len(session_state.rows) :
        /\ lower(session_state.rows[k].end_type) = kind
        /\ session_state.rows[k].team_id = stats.team.team_id}

\* C20: shots returns (total, on_target) with total >= on_target >= 0 and
\* passess returns (total, successful) with total >= successful >= 0; when no
\* warning was given the second number counts a subset of the events the
\* first one counts
C20_SecondCountIsOfASubset ==
    /\ op \in {"shots", "passess"} =>
          /\ stats.result[1] >= stats.result[2]
          /\ stats.result[2] >= 0
    /\ (op = "shots" /\ ~stats.warning) =>
          /\ stats.result[1] = Cardinality(CountedRows("shot"))
          /\ stats.result[2] =
                Cardinality({k \in CountedRows("shot") :
                                is_on_target(session_state.rows[k])})
    /\ (op = "passess" /\ ~stats.warning) =>
          /\ stats.result[1] = Cardinality(CountedRows("pass"))
          /\ stats.result[2] =
                Cardinality({k \in CountedRows("pass") :
                                session_state.rows[k].pass_outcome = "successful"})

\* the passes of a team that made one successful pass out of its own, while
\* the other team made a successful one too
C20_Witness ==
    /\ op = "passess"
    /\ ~stats.warning
    /\ stats.result = <<1, 1>>
    /\ Len(session_state.rows) = MaxEvents
    /\ \E k \in 1..Len(session_state.rows) :
          /\ session_state.rows[k].team_id # stats.team.team_id
          /\ session_state.rows[k].pass_outcome = "successful"

\* C21: pass_accuracy returns an integer of 0..100, the floor of
\* successful * 100 / total over the passes of the team, and returns 0
\* without dividing when the team has no pass or the count fell back to (0, 0)
C21_FloorOfPercentage ==
    op = "pass_accuracy" =>
        LET failed     == \/ ~stats.team.is_team
                          \/ EventDataRaises(session_state)
                          \/ "pass_outcome" \notin session_state.columns
            total      == Cardinality(CountedRows("pass"))
            successful == Cardinality({k \in CountedRows("pass") :
                              session_state.rows[k].pass_outcome = "successful"})
        IN  /\ stats.result \in 0..100
            /\ stats.warning = failed
            /\ IF failed \/ total = 0
               THEN stats.result = 0 /\ ~stats.divided
               ELSE /\ stats.divided
                    /\ stats.result * total <= successful * 100
                    /\ successful * 100 < (stats.result + 1) * total

\* two passes out of three were successful: 66, not 67
C21_Witness ==
    /\ op = "pass_accuracy"
    /\ stats.divided
    /\ stats.result = 66

\* the places in the metadata of the teams of the name asked for
TeamsOfName == {k \in 1..Len(match_teams) : match_teams[k].name = players_name.team_name}

\* C22: get_players_name returns the full names of the players of the first
\* team of the given name, in roster order, and the empty list when no team
\* has the name
C22_NamesOfFirstTeam ==
    op = "get_players_name" =>
        IF TeamsOfName = {}
        THEN players_name.names = <<>>
        ELSE LET first == CHOOSE k \in TeamsOfName : \A j \in TeamsOfName : k <= j
                 roster == match_teams[first].players
             IN  /\ Len(players_name.names) = Len(roster)
                 /\ \A k \in 1..Len(roster) :
                       players_name.names[k] = roster[k].full_name

\* two teams of the name asked for, with different rosters: the names are
\* those of the first
C22_Witness ==
    /\ op = "get_players_name"
    /\ Len(match_teams) = 2
    /\ TeamsOfName = {1, 2}
    /\ players_name.names = <<"Player Two", "Player One">>
    /\ FullNames(match_teams[2].players) # players_name.names

\* C23: the control grid does not depend on the order in which the players of
\* a side are listed
C23_OrderOfPlayers ==
    (previous_call.made /\ op = "calculate_pitch_control")
        => /\ control_grid = previous_call.control_grid
           /\ x_grid = previous_call.x_grid
           /\ y_grid = previous_call.y_grid

\* both lists were given in another order, and the grid is not neutral
C23_Witness ==
    /\ previous_call.made
    /\ op = "calculate_pitch_control"
    /\ player_positions["home"] # previous_call.player_positions["home"]
    /\ player_positions["away"] # previous_call.player_positions["away"]
    /\ player_positions["home"] \in Reorderings(previous_call.player_positions["home"])
    /\ player_positions["away"] \in Reorderings(previous_call.player_positions["away"])
    /\ \E c \in GridCells(grid_size) : Sign(control_grid[c[1]][c[2]]) # 0

\* a < b for quotients of positive integers
QuotientLess(a, b) ==
    IF a.num = b.num THEN b.den < a.den
    ELSE IF a.den = b.den THEN a.num < b.num
    ELSE a.num * b.den < b.num * a.den

\* C24: the influence of a player at a cell is in (0, 1], is 1 exactly at
\* distance 0 and is strictly smaller at a strictly farther cell; the summed
\* surface of a side is nowhere negative and nowhere above its player count
C24_BoundedDecreasingInfluence ==
    op = "calculate_pitch_control" =>
        LET G == grid_size
            listed == {player_positions[side][k] : side \in {"home"},
                          k \in 1..Len(player_positions["home"])}
                      \cup {player_positions[side][k] : side \in {"away"},
                               k \in 1..Len(player_positions["away"])}
            \* for each cell: the square of the distance to the player, the
            \* influence as a quotient and as a fixed-point number
            AtCells(p) ==
                [c \in GridCells(G) |->
                    [d2 |-> Dist2(c, p, x_grid, y_grid, G),
                     q  |-> InfluenceQuotient(x_grid[c[2]], y_grid[c[1]], p[1], p[2], G),
                     v  |-> influence(x_grid[c[2]], y_grid[c[1]], p[1], p[2], G)]]
        IN  /\ \A p \in listed : \A at \in {Array(AtCells(p))} :
               \A c \in GridCells(G) :
                  /\ 0 < at[c].q.num
                  /\ at[c].q.num <= at[c].q.den
                  /\ (at[c].q.num = at[c].q.den) <=> (at[c].d2 = 0)
                  /\ at[c].v \in 1..InflScale
                  /\ \A far \in GridCells(G) :
                        at[far].d2 > at[c].d2
                            => /\ QuotientLess(at[far].q, at[c].q)
                               /\ at[far].v <= at[c].v
            /\ \A side \in {"home", "away"} :
               \A surface \in {Array2(RawSurface(player_positions[side], x_grid, y_grid, G))} :
               \A c \in GridCells(G) :
                  /\ surface[c[1]][c[2]] >= 0
                  /\ surface[c[1]][c[2]] <= Len(player_positions[side]) * InflScale

\* two players of a side on one lattice point: the surface there is 2, and a
\* farther cell has less
C24_Witness ==
    /\ op = "calculate_pitch_control"
    /\ Len(player_positions["home"]) = 2
    /\ \E c, far \in GridCells(grid_size) :
          LET surface == RawSurface(player_positions["home"], x_grid, y_grid, grid_size)
          IN  /\ Dist2(c, player_positions["home"][1], x_grid, y_grid, grid_size) = 0
              /\ surface[c[1]][c[2]] = 2 * InflScale
              /\ surface[far[1]][far[2]] < surface[c[1]][c[2]]
              /\ surface[far[1]][far[2]] > 0

\* the samples run from -dim/2 to +dim/2 inclusive (coordinate units are
\* 1/CoordUnit(G) metres)
FromEndToEnd(samples, dim, G) ==
    /\ 2 * samples[1] = -(dim * CoordUnit(G))
    /\ 2 * samples[G] = dim * CoordUnit(G)

\* G samples with one step between any two neighbours
UniformlySpaced(samples, G) ==
    /\ Len(samples) = G
    /\ \A j, k \in 1..(G - 1) : samples[j + 1] - samples[j] = samples[k + 1] - samples[k]

\* the influence of the listed players of a side summed at the point (xx, yy)
InfluenceAt(side, xx, yy) ==
    SumInfluence(Get(player_positions, side, <<>>), 1, xx, yy, grid_size)

\* entry [i][j] of the grid is the control at (x_grid[j], y_grid[i]): the
\* surfaces that are smoothed and combined hold at [i][j] the influence
\* summed at that point
EntryIsControlAtXjYi ==
    LET G == grid_size
        SurfaceOf(side) ==
            gaussian_filter(Array2([i \in 1..G |-> [j \in 1..G |->
                                InfluenceAt(side, x_grid[j], y_grid[i])]]), G, sigma)
    IN  /\ home_control = SurfaceOf("home")
        /\ away_control = SurfaceOf("away")
        /\ \A c \in GridCells(G) :
              control_grid[c[1]][c[2]] =
                  ControlCell(home_control[c[1]][c[2]], away_control[c[1]][c[2]])

\* the thirds are ranges of the second index, the one x_grid runs along,
\* defensive before middle before attacking
ThirdsSplitTheLength ==
    LET t == thirds
    IN  /\ Columns(control_grid) = Len(x_grid)
        /\ t.defensive_third[1] = 1
        /\ t.middle_third[1] = t.defensive_third[2] + 1
        /\ t.attacking_third[1] = t.middle_third[2] + 1
        /\ t.attacking_third[2] = Len(x_grid)
        /\ \A a \in t.defensive_third[1]..t.defensive_third[2],
              b \in t.middle_third[1]..t.middle_third[2],
              c \in t.attacking_third[1]..t.attacking_third[2] :
                 x_grid[a] < x_grid[b] /\ x_grid[b] < x_grid[c]
        /\ metrics.home_control_total =
              Percentage(CountSign(control_grid, <<1, Len(x_grid)>>, 1),
                         Len(y_grid) * Len(x_grid))

\* the coordinate arrays of an analysis are the lattice of the two grids it
\* subtracted
AnalysisLatticeIsOfItsGrids ==
    /\ analysis.x_grid = linspace(DefaultPitchLength, DefaultGridSize)
    /\ analysis.y_grid = linspace(DefaultPitchWidth, DefaultGridSize)
    /\ \A grid \in {orig_control, mod_control, analysis.control_diff_grid} :
          /\ Len(grid) = Len(analysis.y_grid)
          /\ \A i \in 1..Len(grid) : Len(grid[i]) = Len(analysis.x_grid)
    /\ \A o \in {PitchControl(original_positions, DefaultPitchLength,
                              DefaultPitchWidth, DefaultGridSize, DefaultSigma)},
          m \in {PitchControl(modified_positions, DefaultPitchLength,
                              DefaultPitchWidth, DefaultGridSize, DefaultSigma)} :
          /\ o.control_grid = orig_control /\ m.control_grid = mod_control
          /\ analysis.x_grid = o.x /\ analysis.x_grid = m.x
          /\ analysis.y_grid = o.y /\ analysis.y_grid = m.y

\* the shape of the grid and of its coordinate arrays
ShapeOfGrid ==
    /\ Len(control_grid) = grid_size
    /\ \A i \in 1..grid_size : Len(control_grid[i]) = grid_size
    /\ UniformlySpaced(x_grid, grid_size)
    /\ UniformlySpaced(y_grid, grid_size)

\* C25 as stated: for every grid_size the samples run from -pitch_length/2 to
\* +pitch_length/2 and from -pitch_width/2 to +pitch_width/2 inclusive
C25_LatticeOfAnyGrid ==
    op = "calculate_pitch_control" =>
        /\ ShapeOfGrid
        /\ FromEndToEnd(x_grid, DefaultPitchLength, grid_size)
        /\ FromEndToEnd(y_grid, DefaultPitchWidth, grid_size)
        /\ EntryIsControlAtXjYi

\* C25: calculate_pitch_control returns a grid_size x grid_size grid and
\* grid_size uniformly spaced samples per axis, which for grid_size >= 2 run
\* from -dim/2 to +dim/2 inclusive and for grid_size = 1 are the one sample
\* -dim/2; entry [i][j] is the control at (x_grid[j], y_grid[i]); the thirds
\* split the second axis, the length; the coordinate arrays of an analysis
\* are those of the grids it subtracted
C25_Lattice ==
    /\ op = "calculate_pitch_control" =>
          /\ ShapeOfGrid
          /\ grid_size >= 2 =>
                /\ FromEndToEnd(x_grid, DefaultPitchLength, grid_size)
                /\ FromEndToEnd(y_grid, DefaultPitchWidth, grid_size)
          /\ grid_size = 1 =>
                /\ 2 * x_grid[1] = -(DefaultPitchLength * CoordUnit(1))
                /\ 2 * y_grid[1] = -(DefaultPitchWidth * CoordUnit(1))
          /\ EntryIsControlAtXjYi
    /\ op = "calculate_space_control_metrics" => ThirdsSplitTheLength
    /\ op = "analyze_space_creation" => AnalysisLatticeIsOfItsGrids

\* the metrics of a grid of three or more columns that is not its own
\* transpose: an entry [i][j] and the entry [j][i] have opposite signs
C25_Witness ==
    /\ op = "calculate_space_control_metrics"
    /\ grid_size >= 3
    /\ \E c \in GridCells(grid_size) :
          /\ Sign(control_grid[c[1]][c[2]]) > 0
          /\ Sign(control_grid[c[2]][c[1]]) < 0

\* C26: a statistics function called with an argument that is no Team, with
\* event data that is absent, None, no DataFrame or empty, or without a
\* column it requires, raises nothing, warns and returns its default
C26_ValidationFailuresAreHandled ==
    op = "statistic" =>
        LET failed == \/ ~stats.team.is_team
                      \/ session_state.kind # "DataFrame"
                      \/ Len(session_state.rows) = 0
                      \/ \E col \in RequiredColumns(stats.fn) :
                            col \notin session_state.columns
        IN  /\ stats.raised = "none"
            /\ failed => (stats.warning /\ stats.result = DefaultOf(stats.fn))
            /\ ~failed => ~stats.warning

\* possession of a team on event data without the duration column: the
\* KeyError is caught and the result is 50
C26_Witness ==
    /\ op = "statistic"
    /\ stats.fn = "possession"
    /\ stats.team.is_team
    /\ session_state.kind = "DataFrame"
    /\ Len(session_state.rows) > 0
    /\ "duration" \notin session_state.columns
    /\ stats.warning
    /\ stats.result = 50

RECURSIVE TuplesOfLoaded(_, _, _)
\* (home, away, match_id) for the ids from place k on whose load succeeded,
\* in the order of the ids
TuplesOfLoaded(ids, outcomes, k) ==
    IF k > Len(ids) THEN <<>>
    ELSE (IF outcomes[k] = "loaded"
          THEN << <<TeamsOfMatch(ids[k])[1].name, TeamsOfMatch(ids[k])[2].name, ids[k]>> >>
          ELSE <<>>)
         \o TuplesOfLoaded(ids, outcomes, k + 1)

\* C27: get_teams_in_matches goes through every id in input order whatever
\* fails; it returns one tuple for each id that loaded, in input order; the
\* tuples and the failed ids together are as many as the ids; the message
\* recorded is of type "success" exactly when no id failed, else "warning"
C27_EveryMatchAccountedFor ==
    (op = "get_teams_in_matches" /\ match_loading.returned) =>
        LET ids    == match_loading.available_matches_ids
            failed == {k \in 1..Len(ids) : match_loading.outcomes[k] # "loaded"}
        IN  /\ Len(match_loading.outcomes) = Len(ids)
            /\ match_loading.output = TuplesOfLoaded(ids, match_loading.outcomes, 1)
            /\ Len(match_loading.output) + Cardinality(failed) = Len(ids)
            /\ Len(match_loading.failed_matches) = Cardinality(failed)
            /\ "match_loading_message" \in DOMAIN app_session
            /\ (app_session["match_loading_message"].type = "success") <=> (failed = {})
            /\ (app_session["match_loading_message"].type = "warning") <=> (failed # {})

\* the first id failed and two later ones loaded
C27_Witness ==
    /\ op = "get_teams_in_matches"
    /\ match_loading.returned
    /\ match_loading.outcomes = <<"ConnectionError", "loaded", "loaded">>
    /\ Len(match_loading.output) = 2
    /\ match_loading.output[1][3] # match_loading.output[2][3]
    /\ app_session["match_loading_message"].type = "warning"

\* the difference d is the negation of the difference e
IsNegationOf(d, e) ==
    /\ d.den = e.den
    /\ \A k \in 1..3 : d.num[k] = -e.num[k]

\* C28: the analysis of (B, A) has the cell-wise negation of the difference
\* grid of the analysis of (A, B), the negated control_change, and
\* space_gained and space_lost exchanged; the analysis of (A, A) has a
\* difference grid of zeros and control_change, space_gained and space_lost 0
C28_Antisymmetry ==
    /\ (op = "analyze_space_creation" /\ previous_call.made) =>
          LET first == previous_call.analysis
          IN  /\ original_positions = previous_call.modified_positions
              /\ modified_positions = previous_call.original_positions
              /\ \A c \in GridCells(DefaultGridSize) :
                    IsNegationOf(analysis.control_diff_grid[c[1]][c[2]],
                                 first.control_diff_grid[c[1]][c[2]])
              /\ analysis.control_change = -first.control_change
              /\ analysis.space_gained = first.space_lost
              /\ analysis.space_lost = first.space_gained
    /\ (op = "analyze_space_creation" /\ original_positions = modified_positions) =>
          /\ \A c \in GridCells(DefaultGridSize) :
                CompareDiff(analysis.control_diff_grid[c[1]][c[2]], 0, 1) = 0
          /\ analysis.control_change = 0
          /\ analysis.space_gained = 0
          /\ analysis.space_lost = 0

\* the exchanged analysis of two sets of which one gains more cells than it
\* loses and changes the home total
C28_Witness ==
    /\ op = "analyze_space_creation"
    /\ previous_call.made
    /\ analysis.space_gained > analysis.space_lost
    /\ analysis.space_lost > 0
    /\ analysis.control_change # 0

\* the run is past its data-loading step
DataLoadingDone == script.pc \in {"status", "stopped", "rendered"}

\* C29: after the data-loading step of a run, match_data is None exactly
\* when match_data_error is not None; event_data is not None only if
\* match_data is not None and event_data_error is None; and when match_data
\* is None, event_data is None, event_data_error is 'Match data not loaded'
\* and the run stops with no team or tab content rendered
C29_SessionAfterLoading ==
    (op = "main" /\ DataLoadingDone) =>
        LET match_data       == app_session["match_data"]
            match_data_error == app_session["match_data_error"]
            event_data       == app_session["event_data"]
            event_data_error == app_session["event_data_error"]
        IN  /\ (match_data = None) <=> (match_data_error # None)
            /\ (event_data # None) => (match_data # None /\ event_data_error = None)
            /\ (match_data = None) =>
                  /\ event_data = None
                  /\ event_data_error = Str("Match data not loaded")
                  /\ script.pc # "rendered"
                  /\ script.rendered = {}

\* a second run of the session whose match load failed with an exception
\* without a message: the run stopped
C29_Witness ==
    /\ op = "main"
    /\ script.run = 2
    /\ script.pc = "stopped"
    /\ app_session["match_data_error"] = Str("")
    /\ app_session["event_data"] = None

\* C30: the startup validation runs at most once per session: the first run
\* leaves its startup step with tests_validated set to True whatever the
\* import check and the test suite did, and goes on to preset_app; no later
\* run of the session runs the test suite
C30_ValidationOncePerSession ==
    [][/\ script'.tests_run <= 1
       /\ script.pc = "startup" =>
             /\ script'.pc = "preset"
             /\ SessionGet(app_session', "tests_validated") = Bool(TRUE)
       /\ script.run > 1 => script'.tests_run = script.tests_run]_vars

\* the second run of a session whose tests failed in the first run: the
\* validation was skipped and the run has gone on to load the match
C30_Witness ==
    /\ op = "main"
    /\ script.run = 2
    /\ script.pc = "load_match"
    /\ script.startup = "skipped"
    /\ script.validation = "tests failed"
    /\ script.tests_run = 1

====
